---------------------------- MODULE Spec2Model ----------------------------
(***************************************************************************)
(* A model of the card matcher of pokeprices-scraper (src/card_matcher.py):*)
(* the variant taxonomy, the two parsers, the scorer, the matcher and the  *)
(* fair-value selector.                                                    *)
(*                                                                         *)
(* Conventions.  Python strings are TLA+ strings, read character by        *)
(* character with Len and SubSeq.  Python's None is the empty tuple        *)
(* <<>>; an optional string or number v that is present is the 1-tuple     *)
(* <<v>>; a parsed record is either a record or None.  A dict is a record  *)
(* whose DOMAIN holds the keys the dict has.  The character U+2605 (the    *)
(* star of the "gold star" aliases) is written "*".                        *)
(***************************************************************************)
EXTENDS Integers, Sequences, FiniteSets, TLC

None == <<>>

Some(v) == <<v>>

(***************************************************************************)
(* Characters and the string primitives of Python the code uses.           *)
(***************************************************************************)
UpperLetters == "ABCDEFGHIJKLMNOPQRSTUVWXYZ"

LowerLetters == "abcdefghijklmnopqrstuvwxyz"

Digits == "0123456789"

\* the character at position i, "" outside the string
CharAt(s, i) == IF 1 <= i /\ i <= Len(s) THEN SubSeq(s, i, i) ELSE ""

\* c is one of the characters of the string set
InChars(c, set) == \E k \in 1..Len(set) : CharAt(set, k) = c

IsDigit(c) == InChars(c, Digits)

IsAlpha(c) == InChars(c, UpperLetters) \/ InChars(c, LowerLetters)

\* \s of the re module, on the alphabet of the model
IsSpace(c) == c = " "

\* \w of the re module
IsWord(c) == IsAlpha(c) \/ IsDigit(c) \/ c = "_"

LowerChar(c) ==
    IF InChars(c, UpperLetters)
    THEN CharAt(LowerLetters, CHOOSE k \in 1..26 : CharAt(UpperLetters, k) = c)
    ELSE c

UpperChar(c) ==
    IF InChars(c, LowerLetters)
    THEN CharAt(UpperLetters, CHOOSE k \in 1..26 : CharAt(LowerLetters, k) = c)
    ELSE c

RECURSIVE Lower(_)
\* str.lower()
Lower(s) == IF s = "" THEN "" ELSE LowerChar(Head(s)) \o Lower(Tail(s))

RECURSIVE Upper(_)
\* str.upper()
Upper(s) == IF s = "" THEN "" ELSE UpperChar(Head(s)) \o Upper(Tail(s))

\* needle in hay (a value bound by a set of one element is evaluated once)
Contains(hay, needle) ==
    \E h \in {hay}, n \in {needle} :
        \E i \in 1..(Len(h) - Len(n) + 1) : SubSeq(h, i, i + Len(n) - 1) = n

RECURSIVE LStripZeros(_)
\* s.lstrip("0")
LStripZeros(s) ==
    IF s # "" /\ Head(s) = "0" THEN LStripZeros(Tail(s)) ELSE s

RECURSIVE LStrip(_)
LStrip(s) == IF s # "" /\ IsSpace(Head(s)) THEN LStrip(Tail(s)) ELSE s

RECURSIVE RStrip(_)
RStrip(s) ==
    IF s # "" /\ IsSpace(CharAt(s, Len(s)))
    THEN RStrip(SubSeq(s, 1, Len(s) - 1))
    ELSE s

\* s.strip()
Strip(s) == LStrip(RStrip(s))

\* membership in a character class of the regular expressions
InClass(c, class) ==
    CASE class = "digit" -> IsDigit(c)
      [] class = "alpha" -> IsAlpha(c)
      [] class = "space" -> IsSpace(c)
      [] class = "nonspace" -> ~IsSpace(c)
      [] class = "notopen" -> c # "["
      [] class = "notclose" -> c # "]"

RECURSIVE RunLen(_, _, _)
\* the length of the longest run of characters of a class that starts at i
RunLen(s, i, class) ==
    IF i <= Len(s) /\ InClass(CharAt(s, i), class)
    THEN 1 + RunLen(s, i + 1, class)
    ELSE 0

\* \b of the re module at the gap before position i (1 <= i <= Len(s) + 1)
WordBoundary(s, i) ==
    LET before == i > 1 /\ IsWord(CharAt(s, i - 1))
        after  == i <= Len(s) /\ IsWord(CharAt(s, i))
    IN  before # after

\* the elements of a sequence
Range(seq) == {seq[i] : i \in 1..Len(seq)}

\* a sequence without its elements equal to v that come after the first one
\* is not needed: list.remove(v) drops the first occurrence only
RemoveFirst(seq, v) ==
    IF v \notin Range(seq) THEN seq
    ELSE LET k == CHOOSE i \in 1..Len(seq) :
                      seq[i] = v /\ \A j \in 1..(i - 1) : seq[j] # v
         IN  SubSeq(seq, 1, k - 1) \o SubSeq(seq, k + 1, Len(seq))

(***************************************************************************)
(* The variant taxonomy: two dicts, in insertion order.                    *)
(***************************************************************************)
VALUE_VARIANTS == <<
    [key |-> "1st edition",  aliases |-> <<"1st edition", "1st ed", "1st ed.", "first edition">>],
    [key |-> "gold star",    aliases |-> <<"gold star", "goldstar", "gold *", " * ">>],
    [key |-> "shadowless",   aliases |-> <<"shadowless", "shadow less">>],
    [key |-> "1999-2000",    aliases |-> <<"1999-2000", "1999 2000", "uk print", "4th print">>],
    [key |-> "black dot error", aliases |-> <<"black dot error", "black dot">>],
    [key |-> "tekno",        aliases |-> <<"tekno", "techno">>],
    [key |-> "sparkle",      aliases |-> <<"sparkle", "spectra">>],
    [key |-> "for position only", aliases |-> <<"for position only", "fpo", "test print">>],
    [key |-> "trainer deck a", aliases |-> <<"trainer deck a">>],
    [key |-> "trainer deck b", aliases |-> <<"trainer deck b">>],
    [key |-> "prerelease staff", aliases |-> <<"prerelease staff", "pre-release staff", "staff prerelease">>],
    [key |-> "prerelease",   aliases |-> <<"prerelease", "pre-release", "pre release">>],
    [key |-> "staff",        aliases |-> <<"staff">>],
    [key |-> "error",        aliases |-> <<"error", "misprint">>],
    [key |-> "double holo error", aliases |-> <<"double holo", "double holo error">>],
    [key |-> "stadium challenge", aliases |-> <<"stadium challenge">>],
    [key |-> "cosmos professor program", aliases |-> <<"cosmos professor program", "cosmos professor">>],
    [key |-> "professor program", aliases |-> <<"professor program", "professor promo">>],
    [key |-> "championships", aliases |-> <<"championship", "championships", "worlds">>],
    [key |-> "quarter-finalist", aliases |-> <<"quarter-finalist", "quarter finalist", "qf">>],
    [key |-> "semi-finalist", aliases |-> <<"semi-finalist", "semi finalist", "sf">>],
    [key |-> "top thirty-two", aliases |-> <<"top thirty-two", "top 32", "top thirty two">>],
    [key |-> "top 8",        aliases |-> <<"top 8", "top eight">>],
    [key |-> "ultra ball league", aliases |-> <<"ultra ball league">>],
    [key |-> "premier ball league", aliases |-> <<"premier ball league">>],
    [key |-> "regional championship staff", aliases |-> <<"regional championship staff">>] >>

COSMETIC_VARIANTS == <<
    [key |-> "reverse holo", aliases |-> <<"reverse holo", "reverse holographic", "rev holo", "reverse">>],
    [key |-> "holo",         aliases |-> <<"holo", "holographic", "holofoil">>],
    [key |-> "foil",         aliases |-> <<"foil">>],
    [key |-> "rainbow foil", aliases |-> <<"rainbow foil", "rainbow">>],
    [key |-> "non-holo",     aliases |-> <<"non-holo", "non holo", "nonholo">>] >>

\* the keys of a registry, in its order
Keys(registry) == [i \in 1..Len(registry) |-> registry[i].key]

(***************************************************************************)
(* parse_ebay_title                                                        *)
(***************************************************************************)
\* the alternation of the grade pattern without its last company
GradingCompaniesButLast == {"PSA", "CGC", "BGS", "SGC", "ACE", "AGS", "TAG", "GMA"}

\* the alternation (PSA|CGC|BGS|SGC|ACE|AGS|TAG|GMA|MNT) of the grade pattern
GradingCompanies == {"PSA", "CGC", "BGS", "SGC", "ACE", "AGS", "TAG", "GMA", "MNT"}

\* the least element of a set of numbers that is not empty
MinOf(set) == CHOOSE a \in set : \A b \in set : a <= b

\* The ways \d+\.?\d*\b matches from position j: n1 digits, a dot or none,
\* n2 digits, and a word boundary after them.
GradeEnds(s, j) ==
    {c \in [n1 : 1..RunLen(s, j, "digit"), dot : {0, 1}, n2 : 0..Len(s)] :
        /\ c.dot = 1 => CharAt(s, j + c.n1) = "."
        /\ c.n2 <= RunLen(s, j + c.n1 + c.dot, "digit")
        /\ WordBoundary(s, j + c.n1 + c.dot + c.n2)}

\* a is tried before b by the backtracking matcher: the longest \d+ first,
\* the dot taken before the dot left out, the longest \d* first
TriedBefore(a, b) ==
    \/ a.n1 > b.n1
    \/ a.n1 = b.n1 /\ a.dot > b.dot
    \/ a.n1 = b.n1 /\ a.dot = b.dot /\ a.n2 >= b.n2

\* the position after the first of the ways to match, 0 when there is none
FirstGradeEnd(j, ways) ==
    IF ways = {} THEN 0
    ELSE LET c == CHOOSE a \in ways : \A b \in ways : TriedBefore(a, b)
         IN  j + c.n1 + c.dot + c.n2

\* the two groups of the match of a company at i and a grade from j to e - 1
GradeGroups(title, i, j, e) ==
    IF e = 0 THEN None
    ELSE Some([company |-> SubSeq(title, i, i + 2), grade |-> SubSeq(title, j, e - 1)])

\* the match of \b(PSA|...|MNT)\s*(\d+\.?\d*)\b, letter case ignored, that
\* starts at i: None or its two groups
GradeMatchAt(title, i) ==
    IF /\ i + 2 <= Len(title)
       /\ IsAlpha(CharAt(title, i))
       /\ WordBoundary(title, i)
       /\ Upper(SubSeq(title, i, i + 2)) \in GradingCompanies
    THEN GradeGroups(title, i, i + 3 + RunLen(title, i + 3, "space"),
                     FirstGradeEnd(i + 3 + RunLen(title, i + 3, "space"),
                                   GradeEnds(title, i + 3 + RunLen(title, i + 3, "space"))))
    ELSE None

\* the leftmost match
FirstGradeMatch(title, starts) ==
    IF starts = {} THEN None ELSE GradeMatchAt(title, MinOf(starts))

\* re.search(r'\b(PSA|CGC|BGS|SGC|ACE|AGS|TAG|GMA|MNT)\s*(\d+\.?\d*)\b',
\* title, re.IGNORECASE): None or the two groups
GradeMatch(title) ==
    FirstGradeMatch(title, {i \in 1..Len(title) : GradeMatchAt(title, i) # None})

\* re.search(r'\bgraded\b', title_lower)
GradedWord(title_lower) ==
    \E i \in 1..(Len(title_lower) - 5) :
        /\ SubSeq(title_lower, i, i + 5) = "graded"
        /\ WordBoundary(title_lower, i)
        /\ WordBoundary(title_lower, i + 6)

\* \s*/\s*\d from position j
SlashAndDigit(title, j) ==
    /\ CharAt(title, j) = "/"
    /\ IsDigit(CharAt(title, j + 1 + RunLen(title, j + 1, "space")))

\* (\d{1,4})\s*/\s*\d{1,4} matches at i with n digits in its group
FractionAt(title, i, n) ==
    /\ IsDigit(CharAt(title, i))
    /\ n <= RunLen(title, i, "digit")
    /\ SlashAndDigit(title, i + n + RunLen(title, i + n, "space"))

\* group 1 of the match at i: the most digits, up to 4, that match
FractionGroup(title, i) ==
    SubSeq(title, i, i - 1 + CHOOSE a \in 1..4 :
                             /\ FractionAt(title, i, a)
                             /\ \A b \in (a + 1)..4 : ~FractionAt(title, i, b))

\* the leftmost match
FirstFraction(title, starts) ==
    IF starts = {} THEN None ELSE Some(FractionGroup(title, MinOf(starts)))

\* re.search(r'(\d{1,4})\s*/\s*\d{1,4}', title): None or group 1
FractionMatch(title) ==
    FirstFraction(title, {i \in 1..Len(title) : \E n \in 1..4 : FractionAt(title, i, n)})

\* the group [A-Za-z]*\d+[A-Za-z]* from position j: its letters, digits and
\* letters, "" when there is no digit
HashGroup(title, j, letters) ==
    IF RunLen(title, j + letters, "digit") = 0 THEN ""
    ELSE SubSeq(title, j,
                j - 1 + letters + RunLen(title, j + letters, "digit")
                  + RunLen(title, j + letters + RunLen(title, j + letters, "digit"), "alpha"))

\* group 1 of #\s*([A-Za-z]*\d+[A-Za-z]*) at the "#" of position i, "" when
\* it does not match there
HashGroupAt(title, i) ==
    HashGroup(title, i + 1 + RunLen(title, i + 1, "space"),
              RunLen(title, i + 1 + RunLen(title, i + 1, "space"), "alpha"))

\* the leftmost match
FirstHash(title, starts) ==
    IF starts = {} THEN None ELSE Some(HashGroupAt(title, MinOf(starts)))

\* re.search(r'#\s*([A-Za-z]*\d+[A-Za-z]*)', title): None or group 1
HashMatch(title) ==
    FirstHash(title, {i \in 1..Len(title) :
                         CharAt(title, i) = "#" /\ HashGroupAt(title, i) # ""})

\* s.lstrip("0") or "0"
ZeroStripped(s) == IF LStripZeros(s) = "" THEN "0" ELSE LStripZeros(s)

\* the card number: the numerator of the fraction num_match found, and the
\* token after "#" only when there is no fraction
CardNumber(title, num_match) ==
    IF num_match # None THEN Some(ZeroStripped(num_match[1])) ELSE HashMatch(title)

RECURSIVE Flatten(_)
Flatten(seqs) == IF seqs = <<>> THEN <<>> ELSE Head(seqs) \o Flatten(Tail(seqs))

\* the keys of the registry some alias of which occurs in the text, in
\* registry order (a detection loop of parse_ebay_title)
DetectVariants(registry, title_lower) ==
    Flatten([i \in 1..Len(registry) |->
                IF \E a \in 1..Len(registry[i].aliases) :
                       Contains(title_lower, Lower(registry[i].aliases[a]))
                THEN <<registry[i].key>>
                ELSE <<>>])

\* the detected cosmetic keys left as the loop found them
KeepHolo(cosmetic_variants_found) == cosmetic_variants_found

\* "reverse holo" should not also trigger "holo"
DropHolo(cosmetic_variants_found) ==
    IF /\ "reverse holo" \in Range(cosmetic_variants_found)
       /\ "holo" \in Range(cosmetic_variants_found)
    THEN RemoveFirst(cosmetic_variants_found, "holo")
    ELSE cosmetic_variants_found

\* the dict parse_ebay_title returns
TitleRecord(title_lower, grade_match, card_number, value_variants_found, cosmetic_variants_found) ==
    [title_lower |-> title_lower,
     card_number |-> card_number,
     grading_company |->
         IF grade_match # None THEN Some(Upper(grade_match[1].company)) ELSE None,
     grade_number |->
         IF grade_match # None THEN Some(grade_match[1].grade) ELSE None,
     is_graded |-> grade_match # None \/ GradedWord(title_lower),
     value_variants_found |-> value_variants_found,
     cosmetic_variants_found |-> cosmetic_variants_found]

parse_ebay_title(title) ==
    IF title = None \/ title = Some("") THEN None
    ELSE TitleRecord(Lower(title[1]),
                     GradeMatch(title[1]),
                     CardNumber(title[1], FractionMatch(title[1])),
                     DetectVariants(VALUE_VARIANTS, Lower(title[1])),
                     DropHolo(DetectVariants(COSMETIC_VARIANTS, Lower(title[1]))))

(***************************************************************************)
(* parse_card_name                                                         *)
(***************************************************************************)
\* the position of the first occurrence of the character c at or after
\* position i, 0 when there is none
Find(s, c, i) ==
    LET n == RunLen(SubSeq(s, i, Len(s)), 1, IF c = "[" THEN "notopen" ELSE "notclose")
    IN  IF i + n > Len(s) THEN 0 ELSE i + n

RECURSIVE BracketTags(_)
\* re.findall(r'\[(.*?)\]', s)
BracketTags(s) ==
    LET open  == Find(s, "[", 1)
        close == IF open = 0 THEN 0 ELSE Find(s, "]", open + 1)
    IN  IF close = 0 THEN <<>>
        ELSE <<SubSeq(s, open + 1, close - 1)>>
                 \o BracketTags(SubSeq(s, close + 1, Len(s)))

RECURSIVE StripBrackets(_)
\* re.sub(r'\[.*?\]', '', s)
StripBrackets(s) ==
    LET open  == Find(s, "[", 1)
        close == IF open = 0 THEN 0 ELSE Find(s, "]", open + 1)
    IN  IF close = 0 THEN s
        ELSE SubSeq(s, 1, open - 1) \o StripBrackets(SubSeq(s, close + 1, Len(s)))

\* the position of the first "#" at or after i that a non-space character
\* follows (where '#\S+' matches), 0 when there is none
HashTokenAt(s, i) ==
    LET at == {k \in i..Len(s) :
                  CharAt(s, k) = "#" /\ RunLen(s, k + 1, "nonspace") > 0}
    IN  IF at = {} THEN 0 ELSE CHOOSE k \in at : \A m \in at : k <= m

\* re.search(r'#(\S+)', s): None or group 1
HashToken(s) ==
    LET k == HashTokenAt(s, 1)
    IN  IF k = 0 THEN None
        ELSE Some(SubSeq(s, k + 1, k + RunLen(s, k + 1, "nonspace")))

RECURSIVE StripHashTokens(_)
\* re.sub(r'#\S+', '', s)
StripHashTokens(s) ==
    LET k == HashTokenAt(s, 1)
    IN  IF k = 0 THEN s
        ELSE SubSeq(s, 1, k - 1)
                 \o StripHashTokens(SubSeq(s, k + 1 + RunLen(s, k + 1, "nonspace"), Len(s)))

\* the first key of the registry, in its order, that occurs in the tag:
\* None when no key does
FirstKeyIn(registry, tag_lower) ==
    LET hit == {i \in 1..Len(registry) : Contains(tag_lower, registry[i].key)}
    IN  IF hit = {} THEN None
        ELSE Some(registry[CHOOSE i \in hit : \A k \in hit : i <= k].key)

\* the keys of one tag before those of the tags after it, its cosmetic key
\* recorded whether or not it has a value key
AddTagOfBothKinds(value_key, cosmetic_key, rest) ==
    [value_vars |-> value_key \o rest.value_vars,
     cosmetic_vars |-> cosmetic_key \o rest.cosmetic_vars]

\* the keys of one tag before those of the tags after it: its value key, or
\* else its cosmetic key
AddTag(value_key, cosmetic_key, rest) ==
    [value_vars |-> value_key \o rest.value_vars,
     cosmetic_vars |-> (IF value_key = None THEN cosmetic_key ELSE None)
                           \o rest.cosmetic_vars]

RECURSIVE ClassifyTags(_)
\* the loop over all_tags: the value and cosmetic keys it appends
ClassifyTags(all_tags) ==
    IF all_tags = <<>> THEN [value_vars |-> <<>>, cosmetic_vars |-> <<>>]
    ELSE AddTag(FirstKeyIn(VALUE_VARIANTS, Lower(Head(all_tags))),
                FirstKeyIn(COSMETIC_VARIANTS, Lower(Head(all_tags))),
                ClassifyTags(Tail(all_tags)))

\* the dict parse_card_name returns
NameRecord(clean, tags) ==
    [base_name |-> Strip(StripHashTokens(clean)),
     card_number |-> HashToken(clean),
     value_variants |-> tags.value_vars,
     cosmetic_variants |-> tags.cosmetic_vars]

parse_card_name(card_name) ==
    IF card_name = None \/ card_name = Some("") THEN None
    ELSE NameRecord(Strip(StripBrackets(card_name[1])),
                    ClassifyTags(BracketTags(card_name[1])))

(***************************************************************************)
(* score_match                                                             *)
(***************************************************************************)
NameReward == 20

GateSentinel == 100

NumberReward == 15

NumberPenalty == 20

ValueReward == 10

\* a value penalty below the rewards of the name and the number together
SmallValuePenalty == 50 - 20

ValuePenalty == 50

CosmeticReward == 3

CosmeticPenalty == 10

\* base_lower.split()[0] if base_lower else "" (a base name begins with no
\* space: parse_card_name strips it)
BaseFirstWord(base_lower) ==
    IF base_lower # "" THEN SubSeq(base_lower, 1, RunLen(base_lower, 1, "nonspace")) ELSE ""

\* the elements of a set of keys as a sequence, in registry order (Python
\* iterates a set in an order of its own; the model fixes one)
InOrder(registry, keys) ==
    Flatten([i \in 1..Len(registry) |->
                 IF registry[i].key \in keys THEN <<registry[i].key>> ELSE <<>>])

\* one breakdown line per element of a sequence of keys
Lines(keys, before, after) ==
    [i \in 1..Len(keys) |-> before \o keys[i] \o after]

\* truthiness of an optional string
Truthy(opt) == opt # None /\ opt # Some("")

\* 1. the base name check, passed
NameTerm(base_first_word) ==
    [score |-> NameReward,
     breakdown |-> <<"+20 name '" \o base_first_word \o "'">>]

\* 1. the base name check, failed
GateTerm(base_first_word) ==
    [score |-> 0 - GateSentinel,
     breakdown |-> <<"-100 name '" \o base_first_word \o "' NOT FOUND">>]

\* NumberCompared without .lower(): the letter case of the numbers counts
NumberComparedExactCase(card_num_clean, ebay_num_clean) ==
    IF card_num_clean = ebay_num_clean
    THEN [score |-> NumberReward,
          breakdown |-> <<"+15 number '" \o card_num_clean \o "'">>]
    ELSE [score |-> 0 - NumberPenalty,
          breakdown |-> <<"-20 number mismatch: card='" \o card_num_clean
                            \o "' ebay='" \o ebay_num_clean \o "'">>]

\* the comparison of the two cleaned numbers
NumberCompared(card_num_clean, ebay_num_clean) ==
    IF Lower(card_num_clean) = Lower(ebay_num_clean)
    THEN [score |-> NumberReward,
          breakdown |-> <<"+15 number '" \o card_num_clean \o "'">>]
    ELSE [score |-> 0 - NumberPenalty,
          breakdown |-> <<"-20 number mismatch: card='" \o card_num_clean
                            \o "' ebay='" \o ebay_num_clean \o "'">>]

\* 2. the card number check
NumberTerm(card_number, ebay_number) ==
    IF Truthy(card_number) /\ Truthy(ebay_number)
    THEN NumberCompared(ZeroStripped(card_number[1]), ZeroStripped(ebay_number[1]))
    ELSE [score |-> 0, breakdown |-> <<>>]

\* ValueTerm without its two penalty loops
ValueRewardOnly(card_value_vars, ebay_value_vars) ==
    [score |-> ValueReward * Cardinality(card_value_vars \cap ebay_value_vars),
     breakdown |->
         Lines(InOrder(VALUE_VARIANTS, card_value_vars \cap ebay_value_vars),
               "+10 value variant '", "' MATCH")]

\* ValueTerm without the loop over the keys of the card the title lacks
ValueTitleSideOnly(card_value_vars, ebay_value_vars) ==
    [score |->
          ValueReward * Cardinality(card_value_vars \cap ebay_value_vars)
        - ValuePenalty * Cardinality(ebay_value_vars \ card_value_vars),
     breakdown |->
           Lines(InOrder(VALUE_VARIANTS, card_value_vars \cap ebay_value_vars),
                 "+10 value variant '", "' MATCH")
        \o Lines(InOrder(VALUE_VARIANTS, ebay_value_vars \ card_value_vars),
                 "-50 eBay title has '", "' but card DOESN'T")]

\* 3. value variant matching
ValueTerm(card_value_vars, ebay_value_vars) ==
    [score |->
          ValueReward * Cardinality(card_value_vars \cap ebay_value_vars)
        - ValuePenalty * Cardinality(card_value_vars \ ebay_value_vars)
        - ValuePenalty * Cardinality(ebay_value_vars \ card_value_vars),
     breakdown |->
           Lines(InOrder(VALUE_VARIANTS, card_value_vars \cap ebay_value_vars),
                 "+10 value variant '", "' MATCH")
        \o Lines(InOrder(VALUE_VARIANTS, card_value_vars \ ebay_value_vars),
                 "-50 card has '", "' but eBay title MISSING it")
        \o Lines(InOrder(VALUE_VARIANTS, ebay_value_vars \ card_value_vars),
                 "-50 eBay title has '", "' but card DOESN'T")]

\* CosmeticTerm without its two penalty loops
CosmeticRewardOnly(card_cos_vars, ebay_cos_vars) ==
    [score |-> CosmeticReward * Cardinality(card_cos_vars \cap ebay_cos_vars),
     breakdown |->
         Lines(InOrder(COSMETIC_VARIANTS, card_cos_vars \cap ebay_cos_vars),
               "+3 cosmetic '", "' match")]

\* 4. cosmetic variant matching
CosmeticTerm(card_cos_vars, ebay_cos_vars) ==
    [score |->
          CosmeticReward * Cardinality(card_cos_vars \cap ebay_cos_vars)
        - CosmeticPenalty * Cardinality(card_cos_vars \ ebay_cos_vars)
        - CosmeticPenalty * Cardinality(ebay_cos_vars \ card_cos_vars),
     breakdown |->
           Lines(InOrder(COSMETIC_VARIANTS, card_cos_vars \cap ebay_cos_vars),
                 "+3 cosmetic '", "' match")
        \o Lines(InOrder(COSMETIC_VARIANTS, card_cos_vars \ ebay_cos_vars),
                 "-10 card has cosmetic '", "' but title missing")
        \o Lines(InOrder(COSMETIC_VARIANTS, ebay_cos_vars \ card_cos_vars),
                 "-10 title has cosmetic '", "' but card doesn't")]

\* the score and the breakdown after the four checks
Total(name, number, value, cosmetic) ==
    [score |-> name.score + number.score + value.score + cosmetic.score,
     breakdown |-> name.breakdown \o number.breakdown \o value.breakdown
                       \o cosmetic.breakdown]

\* ScoreChecks without the early return of the base name check
ScoreChecksNoReturn(ebay_parsed, card_parsed, base_first_word) ==
    Total(IF base_first_word # "" /\ Contains(ebay_parsed.title_lower, base_first_word)
          THEN NameTerm(base_first_word)
          ELSE GateTerm(base_first_word),
          NumberTerm(card_parsed.card_number, ebay_parsed.card_number),
          ValueTerm(Range(card_parsed.value_variants),
                    Range(ebay_parsed.value_variants_found)),
          CosmeticTerm(Range(card_parsed.cosmetic_variants),
                       Range(ebay_parsed.cosmetic_variants_found)))

\* score_match from the base name check on
ScoreChecks(ebay_parsed, card_parsed, base_first_word) ==
    IF base_first_word # "" /\ Contains(ebay_parsed.title_lower, base_first_word)
    THEN Total(NameTerm(base_first_word),
               NumberTerm(card_parsed.card_number, ebay_parsed.card_number),
               ValueTerm(Range(card_parsed.value_variants),
                         Range(ebay_parsed.value_variants_found)),
               CosmeticTerm(Range(card_parsed.cosmetic_variants),
                            Range(ebay_parsed.cosmetic_variants_found)))
    ELSE GateTerm(base_first_word)

score_match(ebay_parsed, card_parsed) ==
    IF ebay_parsed = None \/ card_parsed = None
    THEN [score |-> -100, breakdown |-> <<"no data">>]
    ELSE ScoreChecks(ebay_parsed, card_parsed,
                     BaseFirstWord(Lower(card_parsed.base_name)))

(***************************************************************************)
(* find_best_match                                                         *)
(***************************************************************************)
\* dict.get(key), and dict.get(key, default)
Get(dict, key) == IF key \in DOMAIN dict THEN dict[key] ELSE None

GetOr(dict, key, default) == IF key \in DOMAIN dict THEN dict[key] ELSE default

StartScore == -999

HighScore == 35

MediumScore == 20

LowScore == 0

\* KeepBetter with "if True": the last card that parses is kept
KeepLast(best, card, sm) ==
    [best_card |-> card, best_score |-> sm.score, best_breakdown |-> sm.breakdown]

\* KeepBetter with "if best_card is None": the first card that parses is kept
KeepFirst(best, card, sm) ==
    IF best.best_card = None
    THEN [best_card |-> card, best_score |-> sm.score, best_breakdown |-> sm.breakdown]
    ELSE best

\* KeepBetter with "if score >= best_score": a later card of the same score
\* replaces the best one
KeepBetterOrEqual(best, card, sm) ==
    IF sm.score >= best.best_score
    THEN [best_card |-> card, best_score |-> sm.score, best_breakdown |-> sm.breakdown]
    ELSE best

\* "if score > best_score": the card replaces the best one
KeepBetter(best, card, sm) ==
    IF sm.score > best.best_score
    THEN [best_card |-> card, best_score |-> sm.score, best_breakdown |-> sm.breakdown]
    ELSE best

\* ScoreParsed without "if not card_parsed: continue"
ScoreUnparsed(best, ebay_parsed, card, card_parsed) ==
    KeepBetter(best, card, score_match(ebay_parsed, card_parsed))

\* the body of the loop after the name is parsed
ScoreParsed(best, ebay_parsed, card, card_parsed) ==
    IF card_parsed = None THEN best
    ELSE KeepBetter(best, card, score_match(ebay_parsed, card_parsed))

\* the body of the loop over the candidates, for one card
ScoreCandidate(best, ebay_parsed, card) ==
    ScoreParsed(best, ebay_parsed, card,
                parse_card_name(GetOr(card, "card_name", Some(""))))

RECURSIVE ScanCandidates(_, _, _)
\* the loop over the candidates, from the state best
ScanCandidates(best, ebay_parsed, cards) ==
    IF cards = <<>> THEN best
    ELSE ScanCandidates(ScoreCandidate(best, ebay_parsed, Head(cards)),
                        ebay_parsed, Tail(cards))

\* Confidence with ">" for ">="
StrictConfidence(best_score) ==
    IF best_score > HighScore THEN "high"
    ELSE IF best_score > MediumScore THEN "medium"
    ELSE IF best_score > LowScore THEN "low"
    ELSE "none"

\* the conversion of the best score to a confidence level
Confidence(best_score) ==
    IF best_score >= HighScore THEN "high"
    ELSE IF best_score >= MediumScore THEN "medium"
    ELSE IF best_score >= LowScore THEN "low"
    ELSE "none"

\* what find_best_match returns after the loop
MatchResult(best) ==
    [best_card |-> best.best_card, score |-> best.best_score,
     breakdown |-> best.best_breakdown,
     confidence |-> Confidence(best.best_score)]

\* find_best_match after the title is parsed
MatchParsed(ebay_parsed, cards) ==
    IF ebay_parsed = None
    THEN [best_card |-> None, score |-> 0, breakdown |-> <<>>, confidence |-> "none"]
    ELSE MatchResult(ScanCandidates(
             [best_card |-> None, best_score |-> StartScore, best_breakdown |-> <<>>],
             ebay_parsed, cards))

find_best_match(ebay_title, cards) ==
    MatchParsed(parse_ebay_title(ebay_title), cards)

(***************************************************************************)
(* get_fair_value                                                          *)
(***************************************************************************)
RECURSIVE IntOf(_)
\* int() of a string of digits
IntOf(digits) ==
    IF digits = "" THEN 0
    ELSE 10 * IntOf(SubSeq(digits, 1, Len(digits) - 1))
         + (CHOOSE d \in 0..9 : CharAt(Digits, d + 1) = CharAt(digits, Len(digits)))

\* float(grade) >= n for a whole number n and a grade of the form \d+\.?\d*:
\* the fraction is below 1, so the whole part decides
FloatAtLeast(grade, n) == IntOf(SubSeq(grade, 1, RunLen(grade, 1, "digit"))) >= n

\* "val and val > 0" of an optional price
Positive(val) == val # None /\ val[1] # 0 /\ val[1] > 0

\* get_fair_value without the estimate for a graded listing below 9 or
\* without a grade
FairValueNoEstimate(card, ebay_parsed) ==
    IF ebay_parsed = None \/ card = None \/ DOMAIN card = {}
    THEN [value |-> Some(0), label |-> "Unknown"]
    ELSE
    LET grade   == Get(ebay_parsed, "grade_number")
        company == Get(ebay_parsed, "grading_company")
        text(opt) == IF opt = None THEN "None" ELSE opt[1]
        psa10 == Get(card, "current_psa10")
        psa9  == Get(card, "current_psa9")
    IN  IF ebay_parsed.is_graded /\ grade = Some("10") /\ Positive(psa10)
        THEN [value |-> psa10, label |-> text(company) \o " " \o text(grade)]
        ELSE IF ebay_parsed.is_graded /\ Truthy(grade) /\ FloatAtLeast(grade[1], 9)
                /\ Positive(psa9)
        THEN [value |-> psa9, label |-> text(company) \o " " \o text(grade)]
        ELSE [value |-> GetOr(card, "current_raw", Some(0)), label |-> "Raw"]

\* get_fair_value without the branch of the graded listings
RawFairValue(card, ebay_parsed) ==
    IF ebay_parsed = None \/ card = None \/ DOMAIN card = {}
    THEN [value |-> Some(0), label |-> "Unknown"]
    ELSE [value |-> GetOr(card, "current_raw", Some(0)), label |-> "Raw"]

get_fair_value(card, ebay_parsed) ==
    IF ebay_parsed = None \/ card = None \/ DOMAIN card = {}
    THEN [value |-> Some(0), label |-> "Unknown"]
    ELSE
    LET grade   == Get(ebay_parsed, "grade_number")
        company == Get(ebay_parsed, "grading_company")
        text(opt) == IF opt = None THEN "None" ELSE opt[1]
        psa10 == Get(card, "current_psa10")
        psa9  == Get(card, "current_psa9")
    IN  IF ebay_parsed.is_graded /\ grade = Some("10") /\ Positive(psa10)
        THEN [value |-> psa10, label |-> text(company) \o " " \o text(grade)]
        ELSE IF ebay_parsed.is_graded /\ Truthy(grade) /\ FloatAtLeast(grade[1], 9)
                /\ Positive(psa9)
        THEN [value |-> psa9, label |-> text(company) \o " " \o text(grade)]
        ELSE IF ebay_parsed.is_graded /\ Positive(psa9)
        THEN [value |-> psa9, label |-> "Graded (est)"]
        ELSE [value |-> GetOr(card, "current_raw", Some(0)), label |-> "Raw"]

(***************************************************************************)
(* ebay_scraper.py: process_listing                                        *)
(***************************************************************************)

\* JUNK_KEYWORDS ("français" and "español" are left out: the titles of the
\* model have no letter outside ASCII)
JUNK_KEYWORDS == {
    "mystery", "repack", "custom", "proxy", "fake", "replica",
    "lot of", "bundle of", "bulk ", "empty box", "read descrip",
    "keyring", "keychain", "key ring", "key chain",
    "pin badge", "pin ", "sticker", "magnet",
    "playmat", "play mat", "sleeves", "deck box",
    "italian", "italiano", "ita ", " ita",
    "german", "deutsch", "deu ", " deu", "glurak",
    "french", "francais",
    "spanish", "espanol",
    "japanese", "japan", " jpn", "jpn ",
    "korean", " kor", "kor ",
    "chinese", "china",
    "portuguese", "portugues",
    "dutch", "nederlands",
    "polish", "polski" }

\* the text is digits, or digits, a dot and zeros: a whole amount
WholeAmount(text) ==
    /\ RunLen(text, 1, "digit") > 0
    /\ \/ RunLen(text, 1, "digit") = Len(text)
       \/ /\ CharAt(text, RunLen(text, 1, "digit") + 1) = "."
          /\ \A i \in (RunLen(text, 1, "digit") + 2)..Len(text) : CharAt(text, i) = "0"

\* int(float(value) * 100) of a whole amount, None when float() raises
\* ValueError (the amounts of the model are whole or no numbers: the product
\* of a binary fraction and 100 is not modelled)
Cents(value) ==
    IF WholeAmount(value) THEN Some(100 * IntOf(SubSeq(value, 1, RunLen(value, 1, "digit"))))
    ELSE None

\* the condition string of a parsed title
ConditionStr(ebay_parsed) ==
    IF ebay_parsed.is_graded /\ Truthy(ebay_parsed.grading_company) /\ Truthy(ebay_parsed.grade_number)
    THEN ebay_parsed.grading_company[1] \o " " \o ebay_parsed.grade_number[1]
    ELSE IF ebay_parsed.is_graded THEN "Graded"
    ELSE "Ungraded"

\* shipping_cents: 0 without shipping options or when the cost is no number
ShippingCents(item) ==
    IF Get(item, "shipping") = None \/ Cents(item.shipping[1]) = None THEN 0
    ELSE Cents(item.shipping[1])[1]

\* the listing dict (of the fields copied from the item without a test, the
\* currency and the feedback score are kept)
ListingRecord(item, marketplace, ebay_parsed, match, price_cents, shipping_cents) ==
    [card_slug |-> match.best_card.card_slug,
     marketplace |-> marketplace,
     title |-> Some(SubSeq(item.title, 1, IF Len(item.title) < 500 THEN Len(item.title) ELSE 500)),
     price_cents |-> price_cents,
     currency |-> GetOr(item, "currency", "USD"),
     shipping_cents |-> shipping_cents,
     total_cost_cents |-> price_cents + shipping_cents,
     condition |-> Some(ConditionStr(ebay_parsed)),
     seller_feedback_score |-> Get(item, "feedbackScore"),
     match_confidence |-> match.confidence]

\* the values of a call of process_listing that returns before the match
Returned(outcome, ebay_parsed) ==
    [listing |-> None, outcome |-> outcome, ebay_parsed |-> ebay_parsed,
     match |-> [best_card |-> None, score |-> 0, breakdown |-> <<>>, confidence |-> ""],
     fair |-> [value |-> None, label |-> ""]]

\* process_listing from the fair value on: the pair it returns
ListingOfFair(item, marketplace, ebay_parsed, match, fair, price_cents) ==
    IF price_cents = None
    THEN [listing |-> None, outcome |-> "bad_price", ebay_parsed |-> ebay_parsed,
          match |-> match, fair |-> fair]
    ELSE [listing |-> Some(ListingRecord(item, marketplace, ebay_parsed, match,
                                         price_cents[1], ShippingCents(item))),
          outcome |-> match.confidence, ebay_parsed |-> ebay_parsed,
          match |-> match, fair |-> fair]

\* process_listing from the match on
ListingOfMatch(item, marketplace, ebay_parsed, match) ==
    IF DOMAIN match.best_card = {} \/ match.confidence = "none"
    THEN [Returned("no_match", ebay_parsed) EXCEPT !.match = match]
    ELSE ListingOfFair(item, marketplace, ebay_parsed, match,
                       get_fair_value(match.best_card, ebay_parsed),
                       Cents(GetOr(item, "price", "0")))

\* any(kw in title_lower for kw in JUNK_KEYWORDS)
IsJunk(title) == \E kw \in JUNK_KEYWORDS : Contains(Lower(title), kw)

\* process_listing for a title whose junk test and parse are is_junk and
\* ebay_parsed (find_best_match parses the title again, to the same value)
ListingOfTitle(item, marketplace, candidates, is_junk, ebay_parsed) ==
    IF is_junk THEN Returned("junk", None)
    ELSE IF ebay_parsed = None THEN Returned("parse_fail", None)
    ELSE ListingOfMatch(item, marketplace, ebay_parsed, MatchParsed(ebay_parsed, candidates))

\* the pair process_listing returns, with the values of its local variables
process_listing(item, original_card, marketplace, candidates) ==
    ListingOfTitle(item, marketplace, candidates, IsJunk(item.title),
                   parse_ebay_title(Some(item.title)))

(***************************************************************************)
(* detect_deals.py                                                         *)
(***************************************************************************)

MIN_FAIR_VALUE_CENTS == 1000
MIN_SELLER_FEEDBACK == 50
\* MAX_PRICE_RATIO and MIN_PRICE_RATIO, in hundredths
MAX_PRICE_RATIO == 85
MIN_PRICE_RATIO == 30
TRUSTED_CONFIDENCE == {"high", "medium"}
\* USD_TO_GBP, in hundredths
USD_TO_GBP == 79

\* int(price_cents / USD_TO_GBP) for "GBP", price_cents otherwise
convert_to_usd_cents(price_cents, currency) ==
    IF currency = "GBP" THEN (price_cents * 100) \div USD_TO_GBP ELSE price_cents

\* the companies get_fair_value_for_condition looks for in a condition
ConditionCompanies == {"psa", "cgc", "bgs", "sgc", "ace", "ags", "tag", "gma", "mnt"}

\* the companies the low-grade skip of detect_deals looks for
SkipCompanies == {"psa", "cgc", "bgs", "sgc", "ace", "ags"}

\* any(co in text for co in companies)
NamesCompany(text, companies) == \E co \in companies : Contains(text, co)

\* re.search(r'(\d+\.?\d*)', text): None or group 1
GradeIn(text, at) ==
    IF at = {} THEN None
    ELSE Some(SubSeq(text, MinOf(at),
                     MinOf(at) - 1 + RunLen(text, MinOf(at), "digit")
                       + (IF CharAt(text, MinOf(at) + RunLen(text, MinOf(at), "digit")) = "."
                          THEN 1 + RunLen(text, MinOf(at) + RunLen(text, MinOf(at), "digit") + 1, "digit")
                          ELSE 0)))

\* the first number of a text
GradeMatchIn(text) == GradeIn(text, {i \in 1..Len(text) : IsDigit(CharAt(text, i))})

RECURSIVE RStripZeros(_)
RStripZeros(s) ==
    IF s # "" /\ CharAt(s, Len(s)) = "0" THEN RStripZeros(SubSeq(s, 1, Len(s) - 1)) ELSE s

\* str(float(group)) of a group \d+\.?\d* of a few digits
FloatStr(group) ==
    ZeroStripped(SubSeq(group, 1, RunLen(group, 1, "digit"))) \o "."
        \o (IF RStripZeros(SubSeq(group, RunLen(group, 1, "digit") + 2, Len(group))) = ""
            THEN "0"
            ELSE RStripZeros(SubSeq(group, RunLen(group, 1, "digit") + 2, Len(group))))

\* the fair value of a graded condition with the grade grade_match
GradedFairValue(trend, grade_match) ==
    IF grade_match = None
    THEN [value |-> GetOr(trend, "current_raw", Some(0)), label |-> "Raw (grade unknown)"]
    ELSE IF FloatAtLeast(grade_match[1], 10) /\ Positive(Get(trend, "current_psa10"))
    THEN [value |-> Get(trend, "current_psa10"), label |-> "PSA 10"]
    ELSE IF FloatAtLeast(grade_match[1], 9) /\ Positive(Get(trend, "current_psa9"))
    THEN [value |-> Get(trend, "current_psa9"), label |-> "PSA 9"]
    ELSE [value |-> GetOr(trend, "current_raw", Some(0)),
          label |-> "Raw (no data for grade " \o FloatStr(grade_match[1]) \o ")"]

\* the fair value of the stripped condition
FairValueOfStripped(trend, condition_str) ==
    IF NamesCompany(Lower(condition_str), ConditionCompanies) \/ Lower(condition_str) = "graded"
    THEN GradedFairValue(trend, GradeMatchIn(condition_str))
    ELSE [value |-> GetOr(trend, "current_raw", Some(0)), label |-> "Raw"]

\* condition_str is None or a text
get_fair_value_for_condition(trend, condition_str) ==
    FairValueOfStripped(trend, IF condition_str = None THEN "" ELSE Strip(condition_str[1]))

\* the low-grade skip: a number in the condition, below 7, and a company
\* of the skip list
LowGradeSlab(condition) ==
    /\ GradeMatchIn(condition) # None
    /\ NamesCompany(Lower(condition), SkipCompanies)
    /\ ~FloatAtLeast(GradeMatchIn(condition)[1], 7)

\* round((1 - total_usd / fair_value_cents) * 100, 1), in tenths
DiscountTenths(total_usd, fair_value_cents) ==
    (2000 * (fair_value_cents - total_usd) + fair_value_cents) \div (2 * fair_value_cents)

\* the deal of a listing that passed every check (the fields copied from
\* the listing and the trend without a test are left out, but the slug, the
\* cost and the currency)
Deal(listing, condition, fair, feedback, total_usd) ==
    [card_slug |-> listing.card_slug,
     total_cost_cents |-> GetOr(listing, "total_cost_cents", 0),
     currency |-> GetOr(listing, "currency", "USD"),
     fair_value_cents |-> fair.value[1],
     discount_tenths |-> DiscountTenths(total_usd, fair.value[1]),
     confidence |-> GetOr(listing, "match_confidence", "none"),
     seller_feedback_score |-> feedback,
     condition |-> condition,
     value_type |-> fair.label]

\* the checks after the fair value: the deals of one listing, one or none
PricedDeal(listing, condition, fair, feedback, total_usd) ==
    IF ~Positive(fair.value) \/ fair.value[1] < MIN_FAIR_VALUE_CENTS THEN <<>>
    ELSE IF LowGradeSlab(IF condition = None THEN "" ELSE condition[1]) THEN <<>>
    ELSE IF feedback < MIN_SELLER_FEEDBACK THEN <<>>
    ELSE IF total_usd <= 0 THEN <<>>
    ELSE IF total_usd * 100 < MIN_PRICE_RATIO * fair.value[1] THEN <<>>
    ELSE IF total_usd * 100 > MAX_PRICE_RATIO * fair.value[1] THEN <<>>
    ELSE <<Deal(listing, condition, fair, feedback, total_usd)>>

\* one turn of the loop of detect_deals: the deals of one listing
DealsOf(listing, trend, condition) ==
    IF trend = None THEN <<>>
    ELSE IF GetOr(listing, "match_confidence", "none") \notin TRUSTED_CONFIDENCE THEN <<>>
    ELSE PricedDeal(listing, condition, get_fair_value_for_condition(trend[1], condition),
                    IF Get(listing, "seller_feedback_score") = None THEN 0
                    ELSE listing.seller_feedback_score[1],
                    convert_to_usd_cents(GetOr(listing, "total_cost_cents", 0),
                                         GetOr(listing, "currency", "USD")))

RECURSIVE SortedDeals(_)
\* deals.sort(key=discount_pct, reverse=True): the greatest discount first,
\* equal discounts in the order of the list
SortedDeals(deals) ==
    IF deals = <<>> THEN <<>>
    ELSE LET rest == SortedDeals(Tail(deals))
             k == Cardinality({i \in 1..Len(rest) :
                                  rest[i].discount_tenths > Head(deals).discount_tenths})
         IN  SubSeq(rest, 1, k) \o <<Head(deals)>> \o SubSeq(rest, k + 1, Len(rest))

\* trend_map.get(card_slug)
TrendOf(trend_map, card_slug) ==
    IF card_slug \in DOMAIN trend_map THEN Some(trend_map[card_slug]) ELSE None

detect_deals(listings, trend_map) ==
    SortedDeals(Flatten([i \in 1..Len(listings) |->
                            DealsOf(listings[i], TrendOf(trend_map, listings[i].card_slug),
                                    GetOr(listings[i], "condition", Some("Ungraded")))]))

(***************************************************************************)
(* The catalog of run_tests and the inputs of the model.                   *)
(***************************************************************************)
charizard_candidates == <<
    [card_slug |-> "715593", card_name |-> Some("Charizard [1st Edition] #4"), set_name |-> "Base Set",
     current_raw |-> Some(544471), current_psa10 |-> Some(16818352), current_psa9 |-> Some(5000000)],
    [card_slug |-> "715695", card_name |-> Some("Charizard [Shadowless] #4"), set_name |-> "Base Set",
     current_raw |-> Some(87500), current_psa10 |-> Some(3010000), current_psa9 |-> Some(800000)],
    [card_slug |-> "7307451", card_name |-> Some("Charizard [Black Dot Error] #4"), set_name |-> "Base Set",
     current_raw |-> Some(47500), current_psa10 |-> None, current_psa9 |-> None],
    [card_slug |-> "630417", card_name |-> Some("Charizard #4"), set_name |-> "Base Set",
     current_raw |-> Some(33617), current_psa10 |-> Some(1621607), current_psa9 |-> Some(500000)],
    [card_slug |-> "7096109", card_name |-> Some("Charizard [1999-2000] #4"), set_name |-> "Base Set",
     current_raw |-> Some(32151), current_psa10 |-> Some(1244922), current_psa9 |-> Some(400000)] >>

pikachu_candidates == <<
    [card_slug |-> "889184", card_name |-> Some("Pikachu [Gold Star] #104"), set_name |-> "Holon Phantoms",
     current_raw |-> Some(212291), current_psa10 |-> Some(2350000), current_psa9 |-> Some(1000000)],
    [card_slug |-> "889268", card_name |-> Some("Pikachu [Reverse Holo] #79"), set_name |-> "Holon Phantoms",
     current_raw |-> Some(8469), current_psa10 |-> Some(127273), current_psa9 |-> Some(50000)],
    [card_slug |-> "889159", card_name |-> Some("Pikachu #79"), set_name |-> "Holon Phantoms",
     current_raw |-> Some(551), current_psa10 |-> Some(16250), current_psa9 |-> Some(5000)] >>

\* rows of the same two sets that run_tests does not have: a row whose name
\* is null, a row without a name, a name without a base name
other_candidates == <<
    [card_slug |-> "900001", card_name |-> None, set_name |-> "Base Set",
     current_raw |-> Some(100), current_psa10 |-> None, current_psa9 |-> None],
    [card_slug |-> "900002", set_name |-> "Holon Phantoms",
     current_raw |-> None, current_psa10 |-> None, current_psa9 |-> None],
    [card_slug |-> "900003", card_name |-> Some("[Gold Star] #104"), set_name |-> "Holon Phantoms",
     current_raw |-> Some(0), current_psa10 |-> Some(2350000), current_psa9 |-> None] >>

\* a row with four value tags, and a title with the keys of these tags and
\* one more
four_tag_card ==
    [card_slug |-> "900004", card_name |-> Some("Charizard [1st Edition] [Shadowless] [Gold Star] [Tekno] #4"),
     set_name |-> "Base Set",
     current_raw |-> Some(100000), current_psa10 |-> None, current_psa9 |-> None]

T_FiveVariants == "Charizard 4/102 1st Edition Shadowless Gold Star Tekno Sparkle"

Catalog == Range(charizard_candidates) \cup Range(pikachu_candidates) \cup Range(other_candidates)

\* the longest candidate list of the model
MaxPool == 3

\* the candidate lists: up to MaxPool different rows of one set, in any order
\* (find_candidates of the scraper loads the rows of one set)
Pools ==
    {p \in UNION {[1..n -> Catalog] : n \in 0..MaxPool} :
        /\ \A i, j \in DOMAIN p : i # j => p[i] # p[j]
        /\ \A i, j \in DOMAIN p : p[i].set_name = p[j].set_name}

\* the candidate lists given to find_best_match: those of the catalog, and
\* two with the row of four tags
MatchPools ==
    Pools \cup {<<four_tag_card>>, <<charizard_candidates[4], four_tag_card>>}

T_Charizard1stPSA10 == "Pokemon Charizard 4/102 Base Set 1st Edition PSA 10 GEM MINT"

T_PikachuPlain == "Pikachu 79/115 Holon Phantoms Pokemon Card"

\* a title in which parse_ebay_title detects 23 value keys, none of them
\* "shadowless" or "1999-2000"
T_ManyVariants ==
    "Charizard 1st ed gold star black dot error tekno sparkle fpo trainer deck a "
    \o "trainer deck b staff prerelease double holo stadium challenge "
    \o "cosmos professor program worlds qf sf top 32 top 8 ultra ball league "
    \o "premier ball league"

\* the listing titles given to find_best_match: those of run_tests, and others
Titles == {
    Some(T_Charizard1stPSA10),
    Some("Charizard Holo 4/102 Base Set Unlimited Pokemon Card"),
    Some("Pokemon Charizard 4/102 Base Set Shadowless PSA 9 MINT"),
    Some("Charizard Base Set 4/102 1999-2000 4th Print UK"),
    Some("Pokemon Pikachu Gold Star 104/115 Holon Phantoms Near Mint"),
    Some("Pikachu Reverse Holo 79/115 Holon Phantoms Pokemon"),
    Some(T_PikachuPlain),
    Some("Pikachu Holon Phantoms PSA 10 79/115"),
    Some("CHARIZARD #004 base set graded"),
    Some("Charizard 1st Edition Shadowless CGC 9.5"),
    Some("Pikachu 79/115"),
    Some("Mewtwo 4/102 Base Set Holo"),
    Some("Charizard 10/102 Base Set"),
    Some(T_ManyVariants),
    Some(T_FiveVariants),
    Some(""),
    None }

\* the titles given to score_match: those given to find_best_match, a title
\* whose number differs from a catalog number in letter case only, and a
\* title for a catalog number with leading zeros
ScoreTitles ==
    Titles \cup {Some("Zapdos #xy176 Reverse Holo"), Some("Mr. Mime #6 Holo 1st ed"),
                 Some("Mr. Mime #000 Holo")}

\* every alias of a registry, with its key
Aliases(registry) ==
    UNION {{[key |-> registry[i].key, alias |-> registry[i].aliases[a]] :
               a \in 1..Len(registry[i].aliases)} : i \in 1..Len(registry)}

\* a listing title that names a variant by one of its aliases
AliasTitle(alias) == "Pikachu " \o alias \o " card"

\* the titles given to parse_ebay_title alone: one for each alias, and
\* titles with and without a grade and an item number
ParseTitles ==
    {Some(AliasTitle(x.alias)) : x \in Aliases(VALUE_VARIANTS) \cup Aliases(COSMETIC_VARIANTS)}
    \cup {Some("Pikachu card"), Some("psa10"), Some("PSA 10."), Some("PSA 10.5x"),
          Some("xPSA 10"), Some("XYZ 10"), Some("cgc  9.5 graded"), Some("degraded"),
          Some("Cgc 9"), Some("bgs 9.5 PSA 10"), Some("SGC10"), Some("Ace 10"),
          Some("AGS 10"), Some("tag 10"), Some("GMA 8"), Some("mnt 9"), Some("HGA 10"),
          Some("PSA Graded"), Some("PSA 10x"), Some("PSA-10"), Some("un-GRADED"),
          Some("Pikachu 10 PSA"), Some("_PSA 10"), Some("PSA 10_"), Some("graded_"),
          Some("Graded 004/102"), Some("12345/102 #7"), Some("10000/5"),
          Some("Mew 000 / 12 #5"), Some("#7 Mew 4/102"), Some("Mew 4/x #abc #SWSH241"),
          Some("Mew 1234/5"), Some("Mew #abc"), Some("#XY176"), Some("# 0012a"),
          Some("Pikachu Reverse Holo Holo"), Some("Holographic Pikachu reverse foil"), Some(""), None}

\* the catalog names given to parse_card_name alone
CardNames ==
    {c.card_name : c \in {c \in Catalog : "card_name" \in DOMAIN c}}
    \cup {Some("Charizard [1st Edition] ex #4"), Some("Mr. Mime [Holo] #006"),
          Some("Mr. Mime [Holo] #0"),
          Some("Pikachu [Double Holo Error] #5"), Some("Pikachu [Prerelease Staff]"), Some("Pikachu [Regional Championship Staff]"),
          Some("Mew [Promo] [FOIL error] [Rainbow Foil]"),
          Some("Pikachu [Cosmos Holo] [1st Edition Holo] #SWSH241"),
          Some("[Reverse Holo] [Holo] Z #XY176"), Some("A [b"), Some("A ##12 x"),
          Some("Pikachu"), Some("")}

\* the catalog name of a card with the tag of a canonical key, and a title
\* with the same base name, key and number
KeyName(key) == "Pikachu [" \o key \o "] #58"

KeyTitle(key) == "Pikachu " \o key \o " #58"

CanonicalKeys == Range(Keys(VALUE_VARIANTS)) \cup Range(Keys(COSMETIC_VARIANTS))

\* the pairs of a title and a catalog name given to score_match: every
\* title with every name, and for each canonical key the title and the name
\* of that key
ScorePairs ==
    (ScoreTitles \X CardNames)
    \cup {<<Some(KeyTitle(key)), Some(KeyName(key))>> : key \in CanonicalKeys}

\* the titles given to get_fair_value, for their grades
GradeTitles == {
    Some("PSA 10"), Some("psa 10.0"), Some("CGC 9.5"), Some("BGS 9"), Some("SGC 8"),
    Some("PSA 010"), Some("Graded"), Some("Pikachu"), Some(""), None }

\* the trend rows by slug: the rows of the catalog with a raw price above 0
\* (the filter of load_card_trends)
TrendMap ==
    [slug \in {c.card_slug : c \in {c \in Catalog : Positive(Get(c, "current_raw"))}} |->
        CHOOSE c \in Catalog : c.card_slug = slug]

\* the longest list of listings of the model
MaxListings == 2

\* a listing of "Pikachu [Reverse Holo] #79" that is a deal
BaseListing ==
    [card_slug |-> "889268", match_confidence |-> "high", condition |-> Some("Ungraded"),
     seller_feedback_score |-> Some(100), total_cost_cents |-> 5000, currency |-> "USD"]

\* the conditions process_listing writes: a company and a grade, "Graded",
\* "Ungraded"
ListingConditions ==
    {"PSA 10", "CGC 9.5", "BGS 8", "PSA 6", "ACE 3", "TAG 5", "GMA 4", "MNT 6.5",
     "TAG 7", "Graded", "Ungraded"}

\* the listings given to detect_deals: the base listing with every
\* condition, and with one field changed or missing
Listings ==
    {[BaseListing EXCEPT !.condition = Some(c)] : c \in ListingConditions}
    \cup {[BaseListing EXCEPT !.total_cost_cents = 6000],
          [BaseListing EXCEPT !.condition = Some("PSA 10"), !.total_cost_cents = 100000],
          [BaseListing EXCEPT !.condition = Some("CGC 9.5"), !.total_cost_cents = 30000],
          [BaseListing EXCEPT !.condition = Some("PSA 10"), !.total_cost_cents = 30000,
                              !.card_slug = "7307451"],
          [BaseListing EXCEPT !.match_confidence = "medium"],
          [BaseListing EXCEPT !.match_confidence = "low"],
          [BaseListing EXCEPT !.seller_feedback_score = None],
          [BaseListing EXCEPT !.seller_feedback_score = Some(49)],
          [BaseListing EXCEPT !.currency = "GBP"],
          [BaseListing EXCEPT !.card_slug = "900002"],
          [BaseListing EXCEPT !.condition = None],
          [BaseListing EXCEPT !.total_cost_cents = 0],
          [BaseListing EXCEPT !.total_cost_cents = 2000],
          [BaseListing EXCEPT !.total_cost_cents = 8000],
          [k \in DOMAIN BaseListing \ {"condition", "match_confidence"} |-> BaseListing[k]]}

\* the candidate lists given to process_listing: those of at most two rows
ListingPools == {p \in Pools : Len(p) <= 2}

\* the titles of the items given to process_listing: those given to
\* find_best_match, graded titles of every kind, and a title with a junk
\* keyword
ItemTitles ==
    {t[1] : t \in Titles \ {None}}
    \cup {"Pikachu Reverse Holo 79/115 PSA 8", "Pikachu Reverse Holo 79/115 CGC 9.5",
          "Pikachu Reverse Holo 79/115 psa 10.0", "Pikachu Reverse Holo 79/115 TAG 5",
          "Pikachu Reverse Holo 79/115 Graded", "Pikachu 79/115 BGS 9",
          "Charizard 4/102 Base Set proxy card"}

\* the rest of an item: its price, its currency, its shipping cost and
\* the feedback score of its seller
ItemRests ==
    {[price |-> "50.00", currency |-> "USD", feedbackScore |-> Some(100)],
     [price |-> "50", currency |-> "GBP", shipping |-> Some("3.00"), feedbackScore |-> None],
     [price |-> "n/a", currency |-> "USD", shipping |-> Some("free"), feedbackScore |-> Some(100)]}

PriceKeys == {"current_raw", "current_psa10", "current_psa9"}

\* the prices of a row: null, zero, negative, or the price of "Pikachu #79"
Prices(key) == {None, Some(0), Some(-1), Get(pikachu_candidates[3], key)}

\* the cards given to get_fair_value: no card, and rows with any of the
\* price columns missing or holding any of the prices
FairCards ==
    {None} \cup
    UNION {{[k \in K \cup {"card_slug"} |-> IF k = "card_slug" THEN "889159" ELSE f[k]] :
               f \in {g \in [K -> UNION {Prices(k) : k \in PriceKeys}] :
                         \A k \in K : g[k] \in Prices(k)}} :
           K \in SUBSET PriceKeys}

VARIABLES
    pc,           \* the call that was made last
    title,        \* the listing title, or None
    candidates,   \* the candidate list of find_best_match
    card_name,    \* the catalog name given to parse_card_name, or None
    ebay_parsed,  \* the parsed title
    card_parsed,  \* the parsed catalog name
    best_card,    \* the matched card
    score,        \* its score
    breakdown,    \* the reasons of the score
    confidence,   \* the confidence level
    fair_value,   \* the price get_fair_value returned
    value_type,   \* and its label
    raised,       \* the exception the last call raised, "" when it returned
    listings,     \* the listings given to detect_deals
    deals,        \* the deals it returned
    listing,      \* the record process_listing returned, or None
    outcome       \* and the second element of the pair it returned

vars == <<pc, title, candidates, card_name, ebay_parsed, card_parsed,
          best_card, score, breakdown, confidence, fair_value, value_type,
          raised, listings, deals, listing, outcome>>

\* the variables of the calls of the matcher
matcherVars == <<title, candidates, card_name, ebay_parsed, card_parsed,
                 best_card, score, breakdown, confidence, fair_value, value_type,
                 raised>>

\* the variables of the calls of the scraper and of the deal detector
pipelineVars == <<listings, deals, listing, outcome>>

\* before any call
Init ==
    /\ pc = "idle"
    /\ title = None /\ candidates = <<>> /\ card_name = None
    /\ ebay_parsed = None /\ card_parsed = None
    /\ best_card = None /\ score = 0 /\ breakdown = <<>> /\ confidence = ""
    /\ fair_value = None /\ value_type = ""
    /\ raised = ""
    /\ listings = <<>> /\ deals = <<>>
    /\ listing = None /\ outcome = ""

\* ebay_parsed = parse_ebay_title(title)
ParseTitle ==
    /\ pc = "idle"
    /\ UNCHANGED pipelineVars
    /\ \E t \in ParseTitles :
           /\ title' = t
           /\ ebay_parsed' = parse_ebay_title(t)
    /\ pc' = "title_parsed"
    /\ UNCHANGED <<candidates, card_name, card_parsed, best_card, score,
                   breakdown, confidence, fair_value, value_type, raised>>

\* card_parsed = parse_card_name(card_name)
ParseCardName ==
    /\ pc = "idle"
    /\ UNCHANGED pipelineVars
    /\ \E n \in CardNames :
           /\ card_name' = n
           /\ card_parsed' = parse_card_name(n)
    /\ pc' = "name_parsed"
    /\ UNCHANGED <<title, candidates, ebay_parsed, best_card, score,
                   breakdown, confidence, fair_value, value_type, raised>>

\* score, breakdown = score_match(parse_ebay_title(title), parse_card_name(card_name))
ScoreMatch ==
    /\ pc = "idle"
    /\ UNCHANGED pipelineVars
    /\ \E t \in {p[1] : p \in ScorePairs} : \E parsed \in {parse_ebay_title(t)} :
       \E n \in {p[2] : p \in {p \in ScorePairs : p[1] = t}} :
       \E card \in {parse_card_name(n)} : \E r \in {score_match(parsed, card)} :
           /\ title' = t
           /\ card_name' = n
           /\ ebay_parsed' = parsed
           /\ card_parsed' = card
           /\ score' = r.score
           /\ breakdown' = r.breakdown
    /\ pc' = "scored"
    /\ UNCHANGED <<candidates, best_card, confidence, fair_value, value_type, raised>>

\* best_card, score, breakdown, confidence = find_best_match(title, candidates)
\* (the title is parsed once for all the candidate lists it is matched to;
\* ebay_parsed is the local variable of find_best_match)
FindBestMatch ==
    /\ pc = "idle"
    /\ UNCHANGED pipelineVars
    /\ \E t \in Titles : \E parsed \in {parse_ebay_title(t)} : \E cands \in MatchPools :
       \E r \in {MatchParsed(parsed, cands)} :
           /\ title' = t
           /\ candidates' = cands
           /\ ebay_parsed' = parsed
           /\ best_card' = r.best_card
           /\ score' = r.score
           /\ breakdown' = r.breakdown
           /\ confidence' = r.confidence
    /\ pc' = "matched"
    /\ UNCHANGED <<card_name, card_parsed, fair_value, value_type, raised>>

\* run_tests after the match: ebay_parsed = parse_ebay_title(title), the value
\* find_best_match parsed from the same title, and then fair_value, value_type =
\* get_fair_value(best_card, ebay_parsed) if best_card else (0, "N/A")
FairValueOfMatch ==
    /\ pc = "matched"
    /\ UNCHANGED pipelineVars
    /\ \E r \in {IF best_card # None /\ DOMAIN best_card # {}
                 THEN get_fair_value(best_card, ebay_parsed)
                 ELSE [value |-> Some(0), label |-> "N/A"]} :
           fair_value' = r.value /\ value_type' = r.label
    /\ pc' = "done"
    /\ UNCHANGED <<title, candidates, card_name, ebay_parsed, card_parsed,
                   best_card, score, breakdown, confidence, raised>>

\* fair_value, value_type = get_fair_value(card, parse_ebay_title(title)), for
\* any card and title
GetFairValue ==
    /\ pc = "idle"
    /\ UNCHANGED pipelineVars
    /\ \E t \in GradeTitles : \E parsed \in {parse_ebay_title(t)} : \E card \in FairCards :
       \E r \in {get_fair_value(card, parsed)} :
           /\ title' = t
           /\ ebay_parsed' = parsed
           /\ best_card' = card
           /\ fair_value' = r.value
           /\ value_type' = r.label
    /\ pc' = "valued"
    /\ UNCHANGED <<candidates, card_name, card_parsed, score, breakdown, confidence, raised>>

\* find_best_match(title, None): the title is parsed, the sentinel is returned
\* when it does not parse, and "for card in candidates" raises otherwise
FindBestMatchOfNone ==
    /\ pc = "idle"
    /\ UNCHANGED pipelineVars
    /\ \E t \in Titles : \E parsed \in {parse_ebay_title(t)} :
           /\ title' = t
           /\ ebay_parsed' = parsed
           /\ candidates' = None
           /\ IF parsed = None
              THEN /\ best_card' = None
                   /\ score' = 0
                   /\ breakdown' = <<>>
                   /\ confidence' = "none"
                   /\ raised' = ""
                   /\ pc' = "matched"
              ELSE /\ raised' = "TypeError: 'NoneType' object is not iterable"
                   /\ pc' = "raised"
                   /\ UNCHANGED <<best_card, score, breakdown, confidence>>
    /\ UNCHANGED <<card_name, card_parsed, fair_value, value_type>>

\* deals = detect_deals(listings, trend_map), for the trend rows of the catalog
DetectDeals ==
    /\ pc = "idle"
    /\ \E n \in 0..MaxListings : \E ls \in [1..n -> Listings] :
           /\ listings' = ls
           /\ deals' = detect_deals(ls, TrendMap)
    /\ pc' = "detected"
    /\ UNCHANGED matcherVars
    /\ UNCHANGED <<listing, outcome>>

\* listing, outcome = process_listing(item, original_card, marketplace,
\* candidates), where original_card, which process_listing does not read,
\* is the first of the candidates; the variables of the matcher hold the
\* local variables of the call (the title is tested and parsed once for all
\* the items and candidate lists it comes with)
ProcessListing ==
    /\ pc = "idle"
    /\ \E t \in ItemTitles : \E is_junk \in {IsJunk(t)} : \E parsed \in {parse_ebay_title(Some(t))} :
       \E item \in {[title |-> t] @@ rest : rest \in ItemRests} :
       \E cands \in ListingPools \ {<<>>} :
       \E r \in {ListingOfTitle(item, "EBAY_US", cands, is_junk, parsed)} :
           /\ title' = Some(item.title)
           /\ candidates' = cands
           /\ ebay_parsed' = r.ebay_parsed
           /\ best_card' = r.match.best_card
           /\ score' = r.match.score
           /\ breakdown' = r.match.breakdown
           /\ confidence' = r.match.confidence
           /\ fair_value' = r.fair.value
           /\ value_type' = r.fair.label
           /\ listing' = r.listing
           /\ outcome' = r.outcome
    /\ pc' = "listed"
    /\ UNCHANGED <<card_name, card_parsed, raised, listings, deals>>

Next ==
    \/ ParseTitle
    \/ ParseCardName
    \/ ScoreMatch
    \/ FindBestMatch
    \/ FindBestMatchOfNone
    \/ FairValueOfMatch
    \/ GetFairValue
    \/ DetectDeals
    \/ ProcessListing

Spec == Init /\ [][Next]_vars

(***************************************************************************)
(* Properties of the matcher.                                              *)
(***************************************************************************)
\* the parsed name of a candidate, None when it does not parse
ParsedName(card) == parse_card_name(GetOr(card, "card_name", Some("")))

\* the positions of the candidates whose names parse
Parseable == {i \in DOMAIN candidates : ParsedName(candidates[i]) # None}

\* the score of the candidate at position i against the parsed title
ScoreOf(i) == score_match(ebay_parsed, ParsedName(candidates[i])).score

\* find_best_match has returned for the title and the candidates of the state
Matched == pc \in {"matched", "done"}

\* C1: for a title that parses and a candidate list with at least one entry
\* that parses, the score find_best_match returns is greater than or equal to
\* score_match(parsed title, parsed name) of every candidate that parses.
C1_ArgMax ==
    (Matched /\ ebay_parsed # None /\ Parseable # {})
        => \A i \in Parseable : score >= ScoreOf(i)

\* a match of three candidates that parse and score differently, where the
\* best one is the second of the list and the last one scores less
C1_Witness ==
    /\ pc = "matched" /\ ebay_parsed # None
    /\ Len(candidates) = 3 /\ Parseable = {1, 2, 3}
    /\ best_card = candidates[2]
    /\ score = ScoreOf(2)
    /\ ScoreOf(1) < score
    /\ ScoreOf(3) < score

\* the base name check passes for the candidate at position i
PassesGate(i) ==
    /\ BaseFirstWord(Lower(ParsedName(candidates[i]).base_name)) # ""
    /\ Contains(ebay_parsed.title_lower,
                BaseFirstWord(Lower(ParsedName(candidates[i]).base_name)))

\* the value keys of the candidate at position i, and those of the title
ValueKeysOf(i) == Range(ParsedName(candidates[i]).value_variants)

TitleValueKeys == Range(ebay_parsed.value_variants_found)

\* the candidates all parse and pass the base name check, with the same
\* outcome of the number check and the same cosmetic keys
DifferInValueKeysOnly ==
    /\ ebay_parsed # None
    /\ candidates # <<>>
    /\ Parseable = DOMAIN candidates
    /\ \A i \in DOMAIN candidates : PassesGate(i)
    /\ \A i, j \in DOMAIN candidates :
         /\ NumberTerm(ParsedName(candidates[i]).card_number, ebay_parsed.card_number).score
              = NumberTerm(ParsedName(candidates[j]).card_number, ebay_parsed.card_number).score
         /\ Range(ParsedName(candidates[i]).cosmetic_variants)
              = Range(ParsedName(candidates[j]).cosmetic_variants)

\* C2: in a pool of candidates that pass the base name check, agree on the
\* number check and the cosmetic keys and differ in their value keys only,
\* when some candidate carries exactly the value keys detected in the title,
\* the candidate find_best_match selects carries exactly those keys too.
C2_ExactVariantWins ==
    (/\ Matched
     /\ DifferInValueKeysOnly
     /\ \E i \in DOMAIN candidates : ValueKeysOf(i) = TitleValueKeys)
        => /\ best_card # None
           /\ Range(ParsedName(best_card).value_variants) = TitleValueKeys

\* a title naming no value variant, matched to the plain entry that comes
\* after two entries with value keys
C2_Witness ==
    /\ pc = "matched"
    /\ DifferInValueKeysOnly
    /\ Len(candidates) = 3
    /\ TitleValueKeys = {}
    /\ ValueKeysOf(1) # {} /\ ValueKeysOf(2) # {} /\ ValueKeysOf(3) = {}
    /\ best_card = candidates[3]

\* C3: for the title "Pokemon Charizard 4/102 Base Set 1st Edition PSA 10 GEM
\* MINT" and a pool with "Charizard [1st Edition] #4" and "Charizard
\* [Shadowless] #4", find_best_match returns the 1st Edition entry with the
\* confidence "high", and get_fair_value of that entry and the parsed title
\* returns its current_psa10.
C3_CharizardFirstEdition ==
    (/\ Matched
     /\ title = Some(T_Charizard1stPSA10)
     /\ {charizard_candidates[1], charizard_candidates[2]} \subseteq Range(candidates))
        => /\ best_card = charizard_candidates[1]
           /\ confidence = "high"
           /\ pc = "done" => /\ fair_value = charizard_candidates[1].current_psa10
                             /\ fair_value = Some(16818352)

\* the scenario with the Shadowless entry first and a third entry in the pool
C3_Witness ==
    /\ pc = "done"
    /\ title = Some(T_Charizard1stPSA10)
    /\ Len(candidates) = 3
    /\ candidates[1] = charizard_candidates[2]
    /\ charizard_candidates[1] \in Range(candidates)
    /\ best_card = charizard_candidates[1]
    /\ score = 45 /\ confidence = "high"
    /\ fair_value = Some(16818352) /\ value_type = "PSA 10"

\* C4: for the title "Pikachu 79/115 Holon Phantoms Pokemon Card" and a pool
\* with "Pikachu [Gold Star] #104" and "Pikachu #79", in either order, with
\* or without "Pikachu [Reverse Holo] #79", find_best_match returns the plain
\* "Pikachu #79".
C4_PikachuPlain ==
    (/\ Matched
     /\ title = Some(T_PikachuPlain)
     /\ {pikachu_candidates[1], pikachu_candidates[3]} \subseteq Range(candidates)
     /\ Range(candidates) \subseteq Range(pikachu_candidates))
        => best_card = pikachu_candidates[3]

\* the pool of run_tests: Gold Star, Reverse Holo, plain
C4_Witness ==
    /\ pc = "matched"
    /\ title = Some(T_PikachuPlain)
    /\ candidates = pikachu_candidates
    /\ best_card = pikachu_candidates[3]
    /\ best_card.card_name = Some("Pikachu #79")
    /\ score = 25

\* a parsed catalog name with one more value key
WithValueKey(parsed_name, key) ==
    [parsed_name EXCEPT !.value_variants = Append(@, key)]

\* the pool of one Charizard entry before the plain "Charizard #4", the first
\* entry as the catalog names it: with its tag, or without
TaggedFirst == <<charizard_candidates[1], charizard_candidates[4]>>

UntaggedFirst ==
    <<[charizard_candidates[1] EXCEPT !.card_name = Some("Charizard #4")],
      charizard_candidates[4]>>

\* the base name check of score_match passes for the parsed name and title
\* of the state
GatePasses ==
    /\ BaseFirstWord(Lower(card_parsed.base_name)) # ""
    /\ Contains(ebay_parsed.title_lower, BaseFirstWord(Lower(card_parsed.base_name)))

\* C5: for a title and a catalog entry that pass the base name check, one
\* more value key on the entry, which the entry did not carry and the title
\* does not detect, lowers score_match by exactly 50; and in the pool of a
\* first entry and the plain "Charizard #4" the tag [1st Edition] on the first
\* entry, which costs it 50, changes the card find_best_match returns for a
\* title without it.
C5_AbsentValueKeyCosts50 ==
    /\ (pc = "scored" /\ ebay_parsed # None /\ card_parsed # None /\ GatePasses)
         => \A key \in Range(Keys(VALUE_VARIANTS))
                         \ (Range(card_parsed.value_variants) \cup TitleValueKeys) :
                score_match(ebay_parsed, WithValueKey(card_parsed, key)).score
                    = score - 50
    /\ (/\ pc = "matched" /\ ebay_parsed # None
        /\ candidates = TaggedFirst
        /\ "1st edition" \notin TitleValueKeys
        /\ PassesGate(2))
         => /\ best_card = candidates[2]
            /\ MatchParsed(ebay_parsed, UntaggedFirst).best_card = UntaggedFirst[1]
            /\ ParsedName(TaggedFirst[1])
                 = WithValueKey(ParsedName(UntaggedFirst[1]), "1st edition")
            /\ ScoreOf(1) = MatchParsed(ebay_parsed, UntaggedFirst).score - 50

\* the title of the Unlimited card matched to the pool with the tag: the
\* plain entry is returned, and without the tag the first entry would be
C5_Witness ==
    /\ pc = "matched"
    /\ title = Some("Charizard Holo 4/102 Base Set Unlimited Pokemon Card")
    /\ candidates = TaggedFirst
    /\ PassesGate(1) /\ PassesGate(2)
    /\ "1st edition" \notin TitleValueKeys
    /\ best_card = charizard_candidates[4]
    /\ MatchParsed(ebay_parsed, UntaggedFirst).best_card.card_slug = "715593"
    /\ ScoreOf(1) = score - 50

\* the base name check of score_match fails for the parsed name and title
\* of the state
GateFails == ~GatePasses

\* C6: for a parsed title and a parsed catalog entry such that the first
\* word of the base name, in lower case, is not a substring of the title in
\* lower case (an empty base name included), score_match returns a score
\* less than or equal to -100, whatever the numbers and the variant keys are.
C6_GateSentinel ==
    (pc = "scored" /\ ebay_parsed # None /\ card_parsed # None /\ GateFails)
        => score <= -100

\* a name without a base name scored against a title with its number and its
\* value key, and a name whose number the title has but whose first word it
\* has not
C6_Witness ==
    /\ pc = "scored" /\ ebay_parsed # None /\ card_parsed # None
    /\ GateFails
    /\ score = -100
    /\ ebay_parsed.card_number = card_parsed.card_number
    /\ ebay_parsed.card_number # None
    /\ \/ /\ card_parsed.base_name = ""
          /\ card_parsed.value_variants = ebay_parsed.value_variants_found
          /\ card_parsed.value_variants # <<>>
       \/ /\ card_parsed.base_name = "Charizard"
          /\ ebay_parsed.cosmetic_variants_found # <<>>

\* the variant keys parse_ebay_title detected in the title of the state
KeysFound ==
    Range(ebay_parsed.value_variants_found) \cup Range(ebay_parsed.cosmetic_variants_found)

\* C7: for every alias of VALUE_VARIANTS or COSMETIC_VARIANTS, parse_ebay_title
\* of a title that embeds the alias detects exactly the key of the alias and
\* no other variant key.
C7_AliasRoundTrip ==
    pc = "title_parsed"
        => \A x \in Aliases(VALUE_VARIANTS) \cup Aliases(COSMETIC_VARIANTS) :
               title = Some(AliasTitle(x.alias))
                   => ebay_parsed # None /\ KeysFound = {x.key}

\* get_fair_value has returned for a card and a title graded 10
ValuedGrade10 ==
    /\ pc = "valued"
    /\ ebay_parsed # None
    /\ best_card # None
    /\ ebay_parsed.is_graded
    /\ ebay_parsed.grade_number = Some("10")

\* C8: for a title graded 10, get_fair_value returns current_psa10 when it is
\* positive; when it is missing or not positive, current_psa9 if that is
\* positive; and when both are missing or not positive, the explicit unknown
\* value, not the raw price or any other field.
C8_Grade10Fallback ==
    ValuedGrade10
        => /\ Positive(Get(best_card, "current_psa10"))
                => fair_value = best_card.current_psa10
           /\ (~Positive(Get(best_card, "current_psa10"))
                 /\ Positive(Get(best_card, "current_psa9")))
                => fair_value = best_card.current_psa9
           /\ (~Positive(Get(best_card, "current_psa10"))
                 /\ ~Positive(Get(best_card, "current_psa9")))
                => /\ value_type = "Unknown"
                   /\ ~Positive(fair_value)

\* C9: when the price get_fair_value selects and its fallbacks are missing or
\* not positive, it returns an explicit unknown value; it never returns 0, a
\* number that is not positive or null under a price label such as "Raw".
C9_NoPriceIsUnknown ==
    pc \in {"valued", "done"}
        => (~Positive(fair_value) => value_type \in {"Unknown", "N/A"})

\* C10, as stated: the confidence find_best_match returns is a function of
\* the returned score alone: high iff score >= 35, medium iff 20 <= score <
\* 35, low iff 0 <= score < 20, none iff score < 0.
C10_TierOfScoreAlone ==
    Matched
        => /\ confidence = "high" <=> score >= 35
           /\ confidence = "medium" <=> (20 <= score /\ score < 35)
           /\ confidence = "low" <=> (0 <= score /\ score < 20)
           /\ confidence = "none" <=> score < 0

\* C10, amended: when the title parses, the confidence is that function of
\* the returned score; when the title does not parse, find_best_match
\* returns no card with the score 0 and the confidence "none".
C10_TierOfScoreOfParsedTitle ==
    Matched
        => /\ ebay_parsed # None
                => /\ confidence = "high" <=> score >= 35
                   /\ confidence = "medium" <=> (20 <= score /\ score < 35)
                   /\ confidence = "low" <=> (0 <= score /\ score < 20)
                   /\ confidence = "none" <=> score < 0
           /\ ebay_parsed = None
                => best_card = None /\ score = 0 /\ confidence = "none"

\* a title that parses matched with the score 0, at the threshold of "low"
C10_Witness ==
    /\ pc = "matched"
    /\ ebay_parsed # None
    /\ best_card # None
    /\ score = 0
    /\ confidence = "low"

\* C11: when the title does not parse (empty or absent), or the candidate
\* list is empty, or the name of every candidate fails to parse,
\* find_best_match returns no card, the confidence "none" and an empty
\* breakdown.
C11_NoneSentinel ==
    (Matched /\ (ebay_parsed = None \/ candidates = <<>> \/ Parseable = {}))
        => /\ best_card = None
           /\ confidence = "none"
           /\ breakdown = <<>>

\* a title that parses matched to a list that is not empty and whose names
\* do not parse: no card is returned, with the score the loop started from
C11_Witness ==
    /\ pc = "matched"
    /\ ebay_parsed # None
    /\ candidates # <<>>
    /\ Parseable = {}
    /\ best_card = None /\ score = -999 /\ confidence = "none" /\ breakdown = <<>>

\* the positions of the candidates that attain the greatest score of the list
Maximal == {i \in Parseable : \A j \in Parseable : ScoreOf(i) >= ScoreOf(j)}

\* C12, as stated: when two or more candidates attain the same maximal score,
\* find_best_match returns the one that occurs first in the candidate list.
C12_FirstOfTies ==
    (pc = "matched" /\ ebay_parsed # None /\ Cardinality(Maximal) >= 2)
        => best_card = candidates[MinOf(Maximal)]

\* the candidate at position k is the returned card and the first of the
\* list that attains the returned score, which no candidate exceeds
FirstAtReturnedScore(k) ==
    /\ best_card = candidates[k]
    /\ \A i \in DOMAIN candidates :
         LET cp == ParsedName(candidates[i])
             sc == score_match(ebay_parsed, cp).score
         IN  IF cp = None THEN i # k
             ELSE /\ i < k => sc < score
                  /\ i = k => sc = score
                  /\ i > k => sc <= score

\* C12, where it holds: when some candidate scores more than -999, the score
\* the loop starts from, find_best_match returns the first candidate of the list
\* that attains the maximal score, which is the returned score (a later
\* candidate replaces the best one only if its score is strictly higher);
\* when no candidate scores more than -999 it returns no card.
C12_FirstOfTiesAboveStart ==
    (pc = "matched" /\ ebay_parsed # None /\ Parseable # {})
        => IF score > -999
           THEN \E k \in DOMAIN candidates : FirstAtReturnedScore(k)
           ELSE /\ best_card = None
                /\ \A i \in Parseable : ScoreOf(i) <= -999

\* two candidates tied at the returned score after a row whose name does not
\* parse or that scores less: the first of the two is returned
C12_Witness ==
    /\ pc = "matched" /\ ebay_parsed # None
    /\ Len(candidates) = 3
    /\ {2, 3} \subseteq Parseable
    /\ ScoreOf(2) = score /\ ScoreOf(3) = score
    /\ score > -999
    /\ 1 \in Parseable => ScoreOf(1) < score
    /\ best_card = candidates[2]

\* C13: no operation of the core aborts with an exception: an empty or absent
\* title, an empty or absent candidate list, a candidate with an empty or
\* absent name, an absent parsed record and missing or null price fields each
\* map to a defined result.
C13_NoAbort == raised = "" /\ pc # "raised"

\* get_fair_value has returned for a card and a graded title
ValuedGraded ==
    /\ pc = "valued"
    /\ ebay_parsed # None
    /\ best_card # None
    /\ ebay_parsed.is_graded

\* the label made of the grading company and the grade of the title
CompanyAndGrade ==
    ebay_parsed.grading_company[1] \o " " \o ebay_parsed.grade_number[1]

\* C14: for a graded title whose numeric grade is at least 10, in any textual
\* form ("10", "10.0"), and a card whose current_psa10 is positive,
\* get_fair_value returns current_psa10, labelled with the company and grade.
C14_TopGradeAtLeast10 ==
    (/\ ValuedGraded
     /\ ebay_parsed.grade_number # None
     /\ FloatAtLeast(ebay_parsed.grade_number[1], 10)
     /\ Positive(Get(best_card, "current_psa10")))
        => /\ fair_value = best_card.current_psa10
           /\ value_type = CompanyAndGrade

\* C15: for a graded title whose grade is below 10 or unknown and a card whose
\* current_psa9 is positive, get_fair_value returns current_psa9; the label
\* is the company and grade when the grade is at least 9 and "Graded (est)"
\* when it is below 9 or unknown.
C15_SecondTierBelow10 ==
    (/\ ValuedGraded
     /\ ebay_parsed.grade_number # None => ~FloatAtLeast(ebay_parsed.grade_number[1], 10)
     /\ Positive(Get(best_card, "current_psa9")))
        => /\ fair_value = best_card.current_psa9
           /\ IF /\ ebay_parsed.grade_number # None
                 /\ FloatAtLeast(ebay_parsed.grade_number[1], 9)
              THEN value_type = CompanyAndGrade
              ELSE value_type = "Graded (est)"

\* a title graded 8 and a card with all its prices: the price of grade 9 is
\* returned as an estimate
C15_Witness ==
    /\ ValuedGraded
    /\ title = Some("SGC 8")
    /\ ebay_parsed.grade_number = Some("8")
    /\ Get(best_card, "current_psa9") = Some(5000)
    /\ Positive(Get(best_card, "current_psa10"))
    /\ Positive(Get(best_card, "current_raw"))
    /\ fair_value = Some(5000)
    /\ value_type = "Graded (est)"

\* C16: when the title is ungraded, or there is no title data (the parsed
\* title is absent), get_fair_value returns the raw price of the card with
\* the label "Raw".
C16_RawWhenUngradedOrNoTitle ==
    (/\ pc = "valued"
     /\ best_card # None
     /\ ebay_parsed = None \/ ~ebay_parsed.is_graded)
        => /\ value_type = "Raw"
           /\ "current_raw" \in DOMAIN best_card => fair_value = best_card.current_raw

\* score_match has returned for a parsed title and a parsed name that pass
\* the base name check
ScoredPastGate ==
    pc = "scored" /\ ebay_parsed # None /\ card_parsed # None /\ GatePasses

\* the variant keys of the parsed name and of the parsed title of the state
CardValueKeys == Range(card_parsed.value_variants)

CardCosmeticKeys == Range(card_parsed.cosmetic_variants)

TitleCosmeticKeys == Range(ebay_parsed.cosmetic_variants_found)

\* both the parsed name and the parsed title carry a number
BothNumbered ==
    /\ card_parsed.card_number # None /\ card_parsed.card_number # Some("")
    /\ ebay_parsed.card_number # None /\ ebay_parsed.card_number # Some("")

\* the two numbers are equal once their leading zeros are stripped (an empty
\* result becoming "0") and letter case is ignored
NumbersAgree ==
    Lower(ZeroStripped(card_parsed.card_number[1]))
        = Lower(ZeroStripped(ebay_parsed.card_number[1]))

\* the term N of the number: +15 on a match, -20 on a mismatch, 0 when a
\* number is missing
NumberPoints == IF ~BothNumbered THEN 0 ELSE IF NumbersAgree THEN 15 ELSE -20

\* the parsed title and the parsed name with their variant key sets swapped
TitleWithKeysOfCard ==
    [ebay_parsed EXCEPT !.value_variants_found = card_parsed.value_variants,
                        !.cosmetic_variants_found = card_parsed.cosmetic_variants]

CardWithKeysOfTitle ==
    [card_parsed EXCEPT !.value_variants = ebay_parsed.value_variants_found,
                        !.cosmetic_variants = ebay_parsed.cosmetic_variants_found]

\* C17: for a parsed title and a parsed catalog entry that pass the base name
\* check, score_match returns exactly 20 + N + 10 per shared value key - 50
\* per value key of the entry only - 50 per value key of the title only + 3
\* per shared cosmetic key - 10 per cosmetic key of the entry only - 10 per
\* cosmetic key of the title only, N being +15, -20 or 0; and the score is
\* the same when the key sets of the title and of the entry are swapped.
C17_ScoreFormula ==
    ScoredPastGate
        => /\ score = 20 + NumberPoints
                      + 10 * Cardinality(CardValueKeys \cap TitleValueKeys)
                      - 50 * Cardinality(CardValueKeys \ TitleValueKeys)
                      - 50 * Cardinality(TitleValueKeys \ CardValueKeys)
                      + 3 * Cardinality(CardCosmeticKeys \cap TitleCosmeticKeys)
                      - 10 * Cardinality(CardCosmeticKeys \ TitleCosmeticKeys)
                      - 10 * Cardinality(TitleCosmeticKeys \ CardCosmeticKeys)
           /\ score_match(TitleWithKeysOfCard, CardWithKeysOfTitle).score = score

\* "Charizard [1st Edition] #4" scored against the title of the Unlimited
\* holo: the number matches, a value key is on the entry only and a cosmetic
\* key on the title only
C17_Witness ==
    /\ ScoredPastGate
    /\ BothNumbered /\ NumbersAgree
    /\ CardValueKeys = {"1st edition"} /\ TitleValueKeys = {}
    /\ CardCosmeticKeys = {} /\ TitleCosmeticKeys = {"holo"}
    /\ score = -25

\* the parsed name passes the base name check against the title of the state,
\* its number matches, some value key is on one side only and no variant key
\* is shared
StrongBaseOneSidedKey(parsed_name) ==
    /\ BaseFirstWord(Lower(parsed_name.base_name)) # ""
    /\ Contains(ebay_parsed.title_lower, BaseFirstWord(Lower(parsed_name.base_name)))
    /\ parsed_name.card_number # None /\ parsed_name.card_number # Some("")
    /\ ebay_parsed.card_number # None /\ ebay_parsed.card_number # Some("")
    /\ Lower(ZeroStripped(parsed_name.card_number[1]))
         = Lower(ZeroStripped(ebay_parsed.card_number[1]))
    /\ Range(parsed_name.value_variants) # TitleValueKeys
    /\ Range(parsed_name.value_variants) \cap TitleValueKeys = {}
    /\ Range(parsed_name.cosmetic_variants) \cap TitleCosmeticKeys = {}

\* C18: the penalty of a value key on one side only exceeds the rewards of the
\* base name and of the number together: a candidate that passes the base
\* name check, matches the number, has a value key on one side only and
\* shares no variant key with the title scores below 0, and find_best_match
\* returns it with the confidence "none".
C18_MismatchOverridesBase ==
    /\ (pc = "scored" /\ ebay_parsed # None /\ card_parsed # None
          /\ StrongBaseOneSidedKey(card_parsed))
         => score < 0
    /\ (pc = "matched" /\ ebay_parsed # None /\ best_card # None
          /\ StrongBaseOneSidedKey(ParsedName(best_card)))
         => score < 0 /\ confidence = "none"

\* the plain "Charizard #4", the only candidate for the title of the
\* 1999-2000 print, is returned with the score -15 and the confidence "none"
C18_Witness ==
    /\ pc = "matched" /\ ebay_parsed # None
    /\ Len(candidates) = 1
    /\ best_card = charizard_candidates[4]
    /\ StrongBaseOneSidedKey(ParsedName(best_card))
    /\ TitleValueKeys = {"1999-2000"}
    /\ score = -15
    /\ confidence = "none"

\* the positions of the lines of the breakdown that report the number check
NumberLines ==
    {i \in DOMAIN breakdown :
        Len(breakdown[i]) >= 10 /\ SubSeq(breakdown[i], 5, 10) = "number"}

\* the score without the terms of the base name, the value keys and the
\* cosmetic keys
ScoreOfNumber ==
    score - 20 - ValueTerm(CardValueKeys, TitleValueKeys).score
          - CosmeticTerm(CardCosmeticKeys, TitleCosmeticKeys).score

\* C19: score_match applies the number term only when both the title and the
\* catalog entry carry a number: both are stripped of leading zeros (an empty
\* result becomes "0") and compared as strings without regard to letter
\* case, adding +15 when equal and -20 when different; when either side has
\* no number, the score and the breakdown hold no number term.
C19_NumberTerm ==
    ScoredPastGate
        => IF BothNumbered
           THEN /\ NumberLines = {2}
                /\ IF NumbersAgree
                   THEN /\ ScoreOfNumber = 15
                        /\ breakdown[2] = "+15 number '"
                               \o ZeroStripped(card_parsed.card_number[1]) \o "'"
                   ELSE /\ ScoreOfNumber = -20
                        /\ breakdown[2] = "-20 number mismatch: card='"
                               \o ZeroStripped(card_parsed.card_number[1]) \o "' ebay='"
                               \o ZeroStripped(ebay_parsed.card_number[1]) \o "'"
           ELSE /\ NumberLines = {}
                /\ ScoreOfNumber = 0

\* the catalog number "XY176" scored against the title number "xy176": the
\* numbers match
C19_Witness ==
    /\ ScoredPastGate
    /\ card_parsed.card_number = Some("XY176")
    /\ ebay_parsed.card_number = Some("xy176")
    /\ breakdown[2] = "+15 number 'XY176'"
    /\ ScoreOfNumber = 15
    /\ score = 28

\* the catalog number "006" scored against the title number "6": the numbers
\* match once the zeros are stripped
C19_ZerosStripped ==
    /\ ScoredPastGate
    /\ card_parsed.card_number = Some("006")
    /\ ebay_parsed.card_number = Some("6")
    /\ breakdown[2] = "+15 number '6'"

\* the title number "000" scored against the catalog number "0": the empty
\* result of the stripping is "0" and the numbers match
C19_AllZeros ==
    /\ ScoredPastGate
    /\ card_parsed.card_number = Some("0")
    /\ ebay_parsed.card_number = Some("000")
    /\ breakdown[2] = "+15 number '0'"

\* a title without a number scored against a catalog name with one: no
\* number term
C19_NumberMissing ==
    /\ ScoredPastGate
    /\ card_parsed.card_number # None
    /\ ebay_parsed.card_number = None
    /\ NumberLines = {}
    /\ ScoreOfNumber = 0

\* the company tokens the description of the grade extraction enumerates
EnumeratedCompanies == <<"PSA", "CGC", "BGS", "SGC", "ACE", "AGS", "TAG", "GMA", "MNT">>

\* a numeric grade follows the three letters at i: blanks or none, then
\* digits that no letter, digit or underscore continues
NumericGradeAfter(t, i) ==
    LET j == i + 3 + RunLen(t, i + 3, "space")
        k == j + RunLen(t, j, "digit")
    IN  k > j /\ (k > Len(t) \/ ~IsWord(CharAt(t, k)))

\* the positions of the title where an enumerated company, in any letter
\* case and starting a word, is followed by a numeric grade
CompanyWithGradeAt(t) ==
    {i \in 1..(Len(t) - 2) :
        /\ \E c \in DOMAIN EnumeratedCompanies :
               Upper(SubSeq(t, i, i + 2)) = EnumeratedCompanies[c]
        /\ i = 1 \/ ~IsWord(CharAt(t, i - 1))
        /\ NumericGradeAfter(t, i)}

\* the word "graded" occurs in the title, in any letter case
WordGradedIn(t) ==
    \E i \in 1..(Len(t) - 5) :
        /\ Lower(SubSeq(t, i, i + 5)) = "graded"
        /\ i = 1 \/ ~IsWord(CharAt(t, i - 1))
        /\ i + 6 > Len(t) \/ ~IsWord(CharAt(t, i + 6))

\* what the title says of the grading: the three fields expected
GradingOf(t, at) ==
    IF at # {}
    THEN [is_graded |-> TRUE, company |-> Some(Upper(SubSeq(t, MinOf(at), MinOf(at) + 2))), has_grade |-> TRUE]
    ELSE [is_graded |-> WordGradedIn(t), company |-> None, has_grade |-> FALSE]

\* C20: parse_ebay_title marks a title graded with a company and a grade
\* exactly when one of the enumerated company tokens, in any letter case, is
\* followed by a numeric grade, and records the company uppercased; otherwise
\* it marks the title graded with no company and no grade exactly when the
\* word "graded" occurs; in every other case, an unrecognised company token
\* followed by a number included, the title is ungraded with no company and
\* no grade.
C20_GradingExtraction ==
    (pc = "title_parsed" /\ ebay_parsed # None)
        => [is_graded |-> ebay_parsed.is_graded,
            company   |-> ebay_parsed.grading_company,
            has_grade |-> ebay_parsed.grade_number # None]
           = GradingOf(title[1], CompanyWithGradeAt(title[1]))

\* the title "mnt 9" is graded, by the company "MNT", with the grade "9"
C20_Witness ==
    /\ pc = "title_parsed"
    /\ title = Some("mnt 9")
    /\ ebay_parsed.is_graded
    /\ ebay_parsed.grading_company = Some("MNT")
    /\ ebay_parsed.grade_number = Some("9")

\* the title "PSA Graded" is graded with no company and no grade
C20_GradedWordOnly ==
    /\ pc = "title_parsed"
    /\ title = Some("PSA Graded")
    /\ ebay_parsed.is_graded
    /\ ebay_parsed.grading_company = None
    /\ ebay_parsed.grade_number = None

\* the title "HGA 10", of a company that is not enumerated, is ungraded
C20_UnrecognisedCompany ==
    /\ pc = "title_parsed"
    /\ title = Some("HGA 10")
    /\ ~ebay_parsed.is_graded
    /\ ebay_parsed.grading_company = None
    /\ ebay_parsed.grade_number = None

RECURSIVE DigitsEndingAt(_, _)
\* the number of digits of the run of digits that ends at position e
DigitsEndingAt(t, e) ==
    IF e >= 1 /\ IsDigit(CharAt(t, e)) THEN 1 + DigitsEndingAt(t, e - 1) ELSE 0

RECURSIVE BlanksEndingAt(_, _)
\* the number of blanks of the run of blanks that ends at position e
BlanksEndingAt(t, e) ==
    IF e >= 1 /\ IsSpace(CharAt(t, e)) THEN 1 + BlanksEndingAt(t, e - 1) ELSE 0

\* the positions of the "/" of the fractions of a title: digits before it and
\* a digit after it, with blanks or none around it
FractionSlashes(t) ==
    {k \in 1..Len(t) :
        /\ CharAt(t, k) = "/"
        /\ DigitsEndingAt(t, k - 1 - BlanksEndingAt(t, k - 1)) > 0
        /\ IsDigit(CharAt(t, k + 1 + RunLen(t, k + 1, "space")))}

\* the numerator of the fraction whose "/" is at k: all its digits
Numerator(t, k) ==
    SubSeq(t, k - BlanksEndingAt(t, k - 1) - DigitsEndingAt(t, k - 1 - BlanksEndingAt(t, k - 1)),
              k - 1 - BlanksEndingAt(t, k - 1))

\* the item number of a title: the numerator of its first fraction without
\* its leading zeros, else the token after "#", else none
ItemNumberOf(t, slashes) ==
    IF slashes # {} THEN Some(ZeroStripped(Numerator(t, MinOf(slashes))))
    ELSE HashMatch(t)

\* C21: parse_ebay_title takes the item number from an "N/M" fraction when
\* the title has one (the numerator without its leading zeros, "0" when
\* nothing remains) and then never uses a "#token"; only a title without a
\* fraction gives the token after "#", unchanged; a title with neither has
\* no item number.
C21_FractionThenHash ==
    (pc = "title_parsed" /\ ebay_parsed # None)
        => ebay_parsed.card_number = ItemNumberOf(title[1], FractionSlashes(title[1]))

\* C21, for the titles whose fractions have a numerator of at most four
\* digits
C21_FractionThenHashUpTo4Digits ==
    (/\ pc = "title_parsed" /\ ebay_parsed # None
     /\ \A k \in FractionSlashes(title[1]) : Len(Numerator(title[1], k)) <= 4)
        => ebay_parsed.card_number = ItemNumberOf(title[1], FractionSlashes(title[1]))

\* the title "#7 Mew 4/102" has the item number "4": the fraction is taken
\* and the token after "#" is not
C21_Witness ==
    /\ pc = "title_parsed"
    /\ title = Some("#7 Mew 4/102")
    /\ ebay_parsed.card_number = Some("4")

\* the title "10000/5" has the item number "0": the last four digits of the
\* numerator, without their zeros
C21_LongNumerator ==
    /\ pc = "title_parsed"
    /\ title = Some("10000/5")
    /\ ebay_parsed.card_number = Some("0")

\* some alias of the key of the registry occurs in the text
AliasFound(registry, key, text) ==
    \E i \in 1..Len(registry) :
        /\ registry[i].key = key
        /\ \E a \in 1..Len(registry[i].aliases) : Contains(text, Lower(registry[i].aliases[a]))

\* C22: the cosmetic keys parse_ebay_title returns never hold both
\* "reverse holo" and "holo": when an alias of each occurs in the title,
\* "holo" is dropped and "reverse holo" is kept.
C22_ReverseHoloExcludesHolo ==
    (pc \in {"title_parsed", "scored"} /\ ebay_parsed # None)
        => /\ ~({"reverse holo", "holo"} \subseteq Range(ebay_parsed.cosmetic_variants_found))
           /\ (/\ AliasFound(COSMETIC_VARIANTS, "reverse holo", Lower(title[1]))
               /\ AliasFound(COSMETIC_VARIANTS, "holo", Lower(title[1])))
                  => /\ "reverse holo" \in Range(ebay_parsed.cosmetic_variants_found)
                     /\ "holo" \notin Range(ebay_parsed.cosmetic_variants_found)

\* the title "Holographic Pikachu reverse foil" has the cosmetic keys
\* "reverse holo" and "foil" only
C22_Witness ==
    /\ pc = "title_parsed"
    /\ title = Some("Holographic Pikachu reverse foil")
    /\ ebay_parsed.cosmetic_variants_found = <<"reverse holo", "foil">>

\* the position in the registry of the first key that occurs in the tag, 0
\* when no key does
FirstKeyOfTag(registry, tag_lower) ==
    IF \A k \in 1..Len(registry) : ~Contains(tag_lower, registry[k].key) THEN 0
    ELSE CHOOSE k \in 1..Len(registry) :
             /\ Contains(tag_lower, registry[k].key)
             /\ \A j \in 1..(k - 1) : ~Contains(tag_lower, registry[j].key)

\* the variant key of one tag, as a set of at most one pair of a kind and a
\* key: its first value key, or its first cosmetic key when it has no value
\* key
KeyOfTag(tag_lower, v, c) ==
    IF v # 0 THEN {[kind |-> "value", key |-> VALUE_VARIANTS[v].key]}
    ELSE IF c # 0 THEN {[kind |-> "cosmetic", key |-> COSMETIC_VARIANTS[c].key]}
    ELSE {}

\* the keys of a kind of the tags, in the order of the tags
KeysOfKind(tags, kind) ==
    Flatten([i \in 1..Len(tags) |->
                IF \E x \in KeyOfTag(Lower(tags[i]), FirstKeyOfTag(VALUE_VARIANTS, Lower(tags[i])), FirstKeyOfTag(COSMETIC_VARIANTS, Lower(tags[i]))) : x.kind = kind
                THEN <<(CHOOSE x \in KeyOfTag(Lower(tags[i]), FirstKeyOfTag(VALUE_VARIANTS, Lower(tags[i])), FirstKeyOfTag(COSMETIC_VARIANTS, Lower(tags[i]))) : TRUE).key>>
                ELSE <<>>])

\* C23: parse_card_name gives each bracketed tag at most one variant key:
\* the first value key, in registry order, that occurs in the lowercased
\* tag, and the first cosmetic key only when no value key occurs in it; so
\* the keys recorded are never more than the tags and no tag adds to both
\* lists.
C23_OneKeyPerTag ==
    (pc = "name_parsed" /\ card_parsed # None)
        => /\ card_parsed.value_variants = KeysOfKind(BracketTags(card_name[1]), "value")
           /\ card_parsed.cosmetic_variants = KeysOfKind(BracketTags(card_name[1]), "cosmetic")
           /\ Len(card_parsed.value_variants) + Len(card_parsed.cosmetic_variants)
                  <= Len(BracketTags(card_name[1]))

\* the name "Pikachu [Cosmos Holo] [1st Edition Holo] #SWSH241": the first
\* tag gives the cosmetic key "holo"; the second gives the value key
\* "1st edition" and no cosmetic key
C23_Witness ==
    /\ pc = "name_parsed"
    /\ card_name = Some("Pikachu [Cosmos Holo] [1st Edition Holo] #SWSH241")
    /\ card_parsed.value_variants = <<"1st edition">>
    /\ card_parsed.cosmetic_variants = <<"holo">>

RECURSIVE Collapsed(_)
\* a text with every run of blanks made one blank and no blank at its ends
Collapsed(s) ==
    IF s = "" THEN ""
    ELSE IF IsSpace(CharAt(s, 1)) THEN Collapsed(SubSeq(s, 2, Len(s)))
    ELSE IF RunLen(s, 1, "nonspace") = Len(s) THEN s
    ELSE IF Collapsed(SubSeq(s, RunLen(s, 1, "nonspace") + 1, Len(s))) = ""
         THEN SubSeq(s, 1, RunLen(s, 1, "nonspace"))
    ELSE SubSeq(s, 1, RunLen(s, 1, "nonspace")) \o " "
             \o Collapsed(SubSeq(s, RunLen(s, 1, "nonspace") + 1, Len(s)))

\* C24: parse_card_name returns a base name equal to the name without its
\* bracket groups and its "#suffix" and with its whitespace collapsed (no
\* blank at its ends and no two blanks in a row, wherever the bracket groups
\* stood), and an item number equal to the text after "#", verbatim.
C24_BaseNameCollapsed ==
    (pc = "name_parsed" /\ card_parsed # None)
        => /\ card_parsed.base_name
                  = Collapsed(StripHashTokens(StripBrackets(card_name[1])))
           /\ ~Contains(card_parsed.base_name, "  ")
           /\ card_parsed.card_number = HashToken(Strip(StripBrackets(card_name[1])))

\* C24, for the blanks at the ends of the base name and for the item number
C24_BaseNameStripped ==
    (pc = "name_parsed" /\ card_parsed # None)
        => /\ Collapsed(card_parsed.base_name)
                  = Collapsed(StripHashTokens(StripBrackets(card_name[1])))
           /\ card_parsed.base_name = "" \/
                  (/\ ~IsSpace(CharAt(card_parsed.base_name, 1))
                   /\ ~IsSpace(CharAt(card_parsed.base_name, Len(card_parsed.base_name))))
           /\ card_parsed.card_number = HashToken(Strip(StripBrackets(card_name[1])))

\* the name "Charizard [1st Edition] ex #4" has a base name with two blanks
\* in a row
C24_TwoBlanks ==
    /\ pc = "name_parsed"
    /\ card_name = Some("Charizard [1st Edition] ex #4")
    /\ card_parsed.base_name = "Charizard  ex"
    /\ card_parsed.card_number = Some("4")

\* the condition of a deal names one of the companies and a grade below 7
LowGradeOf(deal, companies) ==
    /\ deal.condition # None
    /\ NamesCompany(Lower(deal.condition[1]), companies)
    /\ GradeMatchIn(deal.condition[1]) # None
    /\ ~FloatAtLeast(GradeMatchIn(deal.condition[1])[1], 7)

\* C25: detect_deals emits no deal for a listing whose condition names a
\* grading company and a grade below 7, for every company that
\* get_fair_value_for_condition takes as graded.
C25_NoLowGradeDeal ==
    pc = "detected"
        => \A i \in DOMAIN deals :
               ~LowGradeOf(deals[i], {"psa", "cgc", "bgs", "sgc", "ace", "ags", "tag", "gma", "mnt"})

\* C25, for the six companies of the skip list
C25_NoLowGradeDealOfSix ==
    pc = "detected"
        => \A i \in DOMAIN deals :
               ~LowGradeOf(deals[i], {"psa", "cgc", "bgs", "sgc", "ace", "ags"})

\* a listing "TAG 5" is a deal, priced against the raw price
C25_LowGradeDeal ==
    /\ pc = "detected"
    /\ Len(listings) = 1
    /\ listings[1] = [BaseListing EXCEPT !.condition = Some("TAG 5")]
    /\ Len(deals) = 1
    /\ deals[1].fair_value_cents = 8469
    /\ deals[1].value_type = "Raw (no data for grade 5.0)"

\* a listing "PSA 6" at the same price is no deal
C25_LowGradeSkipped ==
    /\ pc = "detected"
    /\ Len(listings) = 1
    /\ listings[1] = [BaseListing EXCEPT !.condition = Some("PSA 6")]
    /\ deals = <<>>

\* the fields of a listing record that hold the slug and the tier of the
\* match and what is copied or computed from the item
FieldsOfItemAndMatch ==
    {"card_slug", "marketplace", "title", "price_cents", "currency", "shipping_cents",
     "total_cost_cents", "condition", "seller_feedback_score", "match_confidence"}

\* C26: every record process_listing returns carries the card_slug of the
\* candidate find_best_match selected for its title (not that of the card
\* that was searched for), the confidence tier of that match and the matched
\* fair value; and process_listing returns no record when no candidate was
\* matched or the tier is "none".
C26_RecordOfMatch ==
    pc = "listed"
        => /\ listing # None
                  => /\ listing[1].card_slug = best_card.card_slug
                     /\ listing[1].match_confidence = confidence
                     /\ \E k \in DOMAIN listing[1] \ FieldsOfItemAndMatch :
                            listing[1][k] = fair_value
           /\ (DOMAIN best_card = {} \/ confidence = "none") => listing = None

\* C26, without the fair value
C26_SlugAndTierOfMatch ==
    pc = "listed"
        => /\ listing # None
                  => /\ listing[1].card_slug = best_card.card_slug
                     /\ best_card = MatchParsed(ebay_parsed, candidates).best_card
                     /\ listing[1].match_confidence = confidence
                     /\ confidence = MatchParsed(ebay_parsed, candidates).confidence
           /\ (DOMAIN best_card = {} \/ confidence = "none") => listing = None

\* a record of the card "Charizard #4" for a search of "Charizard [1st
\* Edition] #4": the fair value 33617 of the match is in no field of it
C26_NoFairValue ==
    /\ pc = "listed"
    /\ listing # None
    /\ candidates[1].card_slug = "715593"
    /\ listing[1].card_slug = "630417"
    /\ fair_value = Some(33617)
    /\ DOMAIN listing[1] \ FieldsOfItemAndMatch = {}

\* no record for a title that matches no candidate
C26_NoRecord ==
    /\ pc = "listed"
    /\ outcome = "no_match"
    /\ confidence = "none"
    /\ listing = None

\* the state after score_match of the title and the name of a key
ScoredKey(key) ==
    /\ pc = "scored"
    /\ title = Some(KeyTitle(key))
    /\ card_name = Some(KeyName(key))

\* the two parsers found the same keys, and the score has no penalty
SameKeys ==
    /\ Range(ebay_parsed.value_variants_found) = Range(card_parsed.value_variants)
    /\ Range(ebay_parsed.cosmetic_variants_found) = Range(card_parsed.cosmetic_variants)
    /\ \A i \in DOMAIN breakdown : CharAt(breakdown[i], 1) # "-"

\* the keys for which the two parsers do not agree
DisagreeingKeys ==
    {"black dot error", "prerelease staff", "double holo error",
     "cosmos professor program", "regional championship staff", "rainbow foil",
     "non-holo"}

\* C27: for every canonical key K of either taxonomy, a catalog entry named
\* "Name [K] #n" scored against a title of the same base name, the text K
\* and the number n has the same keys on both sides, and score_match applies
\* no variant penalty to the pair.
C27_ParsersAgree ==
    \A key \in CanonicalKeys : ScoredKey(key) => SameKeys

\* C27, for the keys that are not in DisagreeingKeys; for each key of
\* DisagreeingKeys the keys of the two sides differ
C27_ParsersAgreeOnMostKeys ==
    \A key \in CanonicalKeys : ScoredKey(key) => (SameKeys <=> key \notin DisagreeingKeys)

\* the name "Pikachu [double holo error] #58" has the value key "error"
\* only, and its title the value keys "error" and "double holo error" and
\* the cosmetic key "holo": the score is 20 + 15 + 10 - 50 - 10
C27_DoubleHoloError ==
    /\ ScoredKey("double holo error")
    /\ card_parsed.value_variants = <<"error">>
    /\ card_parsed.cosmetic_variants = <<>>
    /\ ebay_parsed.value_variants_found = <<"error", "double holo error">>
    /\ ebay_parsed.cosmetic_variants_found = <<"holo">>
    /\ score = -15

\* the name and the title of the key "gold star" have that key only
C27_GoldStar ==
    /\ ScoredKey("gold star")
    /\ SameKeys
    /\ card_parsed.value_variants = <<"gold star">>
    /\ score = 45

\* the value keys of the matched card
BestCardValueKeys == Range(parse_card_name(best_card.card_name).value_variants)

\* find_best_match returned a card with the tier "high" or "medium"
TrustedMatch ==
    /\ pc = "matched"
    /\ DOMAIN best_card # {}
    /\ confidence \in {"high", "medium"}

\* C28: whenever find_best_match returns the tier "high" or "medium", the
\* value keys of the returned candidate are those detected in the title,
\* whatever the number of keys the two share.
C28_TrustedHasNoValueMismatch ==
    TrustedMatch => BestCardValueKeys = TitleValueKeys

\* C28, for a candidate and a title that share at most two value keys
C28_TrustedUpToTwoSharedKeys ==
    (TrustedMatch /\ Cardinality(BestCardValueKeys \cap TitleValueKeys) <= 2)
        => BestCardValueKeys = TitleValueKeys

\* the row of four tags is returned with the tier "medium" for a title
\* that has its four keys and "sparkle": 20 + 15 + 40 - 50
C28_MediumWithMismatch ==
    /\ TrustedMatch
    /\ title = Some(T_FiveVariants)
    /\ best_card = four_tag_card
    /\ score = 25
    /\ confidence = "medium"
    /\ TitleValueKeys \ BestCardValueKeys = {"sparkle"}

\* C29: whenever the title parses and the name of at least one candidate
\* parses, find_best_match returns one of the candidates of the list, however
\* low the score of every candidate is.
C29_ReturnsACandidate ==
    (pc = "matched" /\ candidates # None /\ ebay_parsed # None /\ Parseable # {})
        => \E i \in DOMAIN candidates : best_card = candidates[i]

\* C29, when the score of some candidate is above -999; and when none is,
\* no candidate is returned
C29_ReturnsACandidateAboveStart ==
    (pc = "matched" /\ candidates # None /\ ebay_parsed # None /\ Parseable # {})
        => ((\E i \in DOMAIN candidates : best_card = candidates[i])
               <=> (\E i \in Parseable : ScoreOf(i) > -999))

\* the candidate "Charizard #4" alone, with the score -1140 against a title
\* of 23 value keys: no candidate is returned, with the score -999
C29_NoCandidateReturned ==
    /\ pc = "matched"
    /\ title = Some(T_ManyVariants)
    /\ candidates = <<charizard_candidates[4]>>
    /\ ScoreOf(1) = -1140
    /\ best_card = None
    /\ score = -999
    /\ confidence = "none"

\* a candidate that fails the base name check, with the score -100, is
\* returned
C29_LowScoreReturned ==
    /\ pc = "matched"
    /\ Len(candidates) = 1
    /\ best_card = candidates[1]
    /\ score = -100

\* get_fair_value has returned for a card and a parsed title: after a call
\* of it alone, or in a call of process_listing
FairValueReturned ==
    /\ \/ pc = "valued"
       \/ pc = "listed" /\ outcome \notin {"junk", "parse_fail", "no_match"}
    /\ ebay_parsed # None
    /\ DOMAIN best_card # {}

\* the price get_fair_value_for_condition returns for the card and the
\* condition string process_listing derives from the parsed title
PriceForCondition ==
    get_fair_value_for_condition(best_card, Some(ConditionStr(ebay_parsed))).value

\* C30: for every matched card and every parsed title, the price
\* get_fair_value returns is the price get_fair_value_for_condition returns
\* for the same card and the condition string process_listing derives from
\* the title.
C30_SelectorsAgree ==
    FairValueReturned => fair_value = PriceForCondition

\* C30, for the titles that are not graded, or graded "10", or graded 9 to
\* below 10
C30_SelectorsAgreeFrom9 ==
    (/\ FairValueReturned
     /\ \/ ~ebay_parsed.is_graded
        \/ ebay_parsed.grade_number = Some("10")
        \/ /\ Truthy(ebay_parsed.grade_number)
           /\ FloatAtLeast(ebay_parsed.grade_number[1], 9)
           /\ ~FloatAtLeast(ebay_parsed.grade_number[1], 10))
        => fair_value = PriceForCondition

\* the listing "Pikachu Reverse Holo 79/115 PSA 8": get_fair_value gives
\* the PSA 9 price 50000, get_fair_value_for_condition the raw price 8469
C30_Grade8 ==
    /\ pc = "listed"
    /\ listing # None
    /\ listing[1].condition = Some("PSA 8")
    /\ listing[1].card_slug = "889268"
    /\ fair_value = Some(50000)
    /\ value_type = "Graded (est)"
    /\ PriceForCondition = Some(8469)

\* the title "PSA 10": both give the PSA 10 price
C30_Grade10 ==
    /\ pc = "valued"
    /\ title = Some("PSA 10")
    /\ fair_value = Some(16250)
    /\ PriceForCondition = Some(16250)

=============================================================================
